---------------------------- MODULE Spec2Model ----------------------------
(***************************************************************************)
(* react-date-pickers: the calendar date engine (utils/date.ts) and the    *)
(* selection-state controller (context/CalendarContext.tsx,                *)
(* CalendarProvider).                                                      *)
(*                                                                         *)
(* A CalendarDate is the record [year, month, day].  The JavaScript values *)
(* undefined and null are the two records Undefined and Null, so that a    *)
(* prop or a selection is always a record and `??`, `!x` and               *)
(* `x !== undefined` can be modelled as the code writes them.              *)
(***************************************************************************)
EXTENDS Integers, Sequences, FiniteSets, TLC

\* ------------------------------------------------------------------ bounds
\* Number of consecutive days, from BaseDate on, that events may name.
NumDates == 5
\* Most calls of onChange, and of onRangeChange, that a run makes.
MaxCalls == 2
\* Most events (clicks, key presses, navigation calls) on a mounted picker.
MaxEvents == 2

\* ------------------------------------------------- JavaScript value model
Undefined == [undefined |-> TRUE]
Null == [null |-> TRUE]

\* x == null || x === undefined, the test behind `??` and (for objects) `!x`
isNullish(x) == x = Undefined \/ x = Null

\* a ?? b
Coalesce(a, b) == IF isNullish(a) THEN b ELSE a

\* ------------------------------------------------------ utils/date.ts
createDate(year, month, day) == [year |-> year, month |-> month, day |-> day]

\* ECMAScript Date(year, monthIndex, day) in local civil time: the day number
\* (days since 1970-01-01) of the normalised date.  A year argument in 0..99
\* means 1900 + year; monthIndex and day overflow into the neighbouring
\* months and years (MakeDay).
JSFullYear(y) == IF y >= 0 /\ y <= 99 THEN 1900 + y ELSE y

DaysFromCivil(y, m, d) ==
  LET yy  == IF m <= 2 THEN y - 1 ELSE y
      era == yy \div 400
      yoe == yy - era * 400
      mp  == IF m > 2 THEN m - 3 ELSE m + 9
      doy == (153 * mp + 2) \div 5 + d - 1
      doe == yoe * 365 + yoe \div 4 - yoe \div 100 + doy
  IN  era * 146097 + doe - 719468

CivilFromDays(n) ==
  LET z   == n + 719468
      era == z \div 146097
      doe == z - era * 146097
      yoe == (doe - doe \div 1460 + doe \div 36524 - doe \div 146096) \div 365
      doy == doe - (365 * yoe + yoe \div 4 - yoe \div 100)
      mp  == (5 * doy + 2) \div 153
      d   == doy - (153 * mp + 2) \div 5 + 1
      m   == IF mp < 10 THEN mp + 3 ELSE mp - 9
      y   == yoe + era * 400 + (IF m <= 2 THEN 1 ELSE 0)
  IN  createDate(y, m, d)

\* new Date(year, monthIndex, day), read back with getFullYear(),
\* getMonth() + 1 and getDate()
JSDate(year, monthIndex, day) ==
  LET ym == JSFullYear(year) + (monthIndex \div 12)
      mn == monthIndex % 12
  IN  CivilFromDays(DaysFromCivil(ym, mn + 1, 1) + day - 1)

isSameDay(a, b) ==
  IF isNullish(a) \/ isNullish(b) THEN FALSE
  ELSE a.year = b.year /\ a.month = b.month /\ a.day = b.day

isSameMonth(a, b) == a.year = b.year /\ a.month = b.month

isBefore(a, b) ==
  IF a.year # b.year THEN a.year < b.year
  ELSE IF a.month # b.month THEN a.month < b.month
  ELSE a.day < b.day

isAfter(a, b) ==
  IF a.year # b.year THEN a.year > b.year
  ELSE IF a.month # b.month THEN a.month > b.month
  ELSE a.day > b.day

\* A JavaScript array: the record holding its items in order
List(items) == [items |-> items]

\* (variant: minDate itself is disabled too)
isDateDisabled_MinInclusive(date, minDate, maxDate, disabledDates) ==
  IF minDate # Undefined /\ ~isAfter(date, minDate) THEN TRUE
  ELSE IF maxDate # Undefined /\ isAfter(date, maxDate) THEN TRUE
  ELSE IF disabledDates # Undefined
          /\ \E i \in 1..Len(disabledDates.items) :
                isSameDay(disabledDates.items[i], date)
       THEN TRUE
  ELSE FALSE

\* disabledDates is a List of dates, or Undefined; minDate and maxDate are
\* dates, or Undefined
isDateDisabled(date, minDate, maxDate, disabledDates) ==
  IF minDate # Undefined /\ isBefore(date, minDate) THEN TRUE
  ELSE IF maxDate # Undefined /\ isAfter(date, maxDate) THEN TRUE
  ELSE IF disabledDates # Undefined
          /\ \E i \in 1..Len(disabledDates.items) :
                isSameDay(disabledDates.items[i], date)
       THEN TRUE
  ELSE FALSE

\* (variant: the month number is not normalised)
addMonths_NoYearRollover(date, amount) ==
  createDate(date.year, date.month + amount, 1)

addMonths(date, amount) ==
  LET d == JSDate(date.year, date.month - 1 + amount, 1)
  IN  createDate(d.year, d.month, 1)

\* (variant: the day number is not normalised)
addDays_NoRollover(date, amount) ==
  createDate(date.year, date.month, date.day + amount)

addDays(date, amount) ==
  LET d == JSDate(date.year, date.month - 1, date.day + amount)
  IN  createDate(d.year, d.month, d.day)

\* new Date(year, monthIndex, day).getDay(): 0 is Sunday; day number 0
\* (1970-01-01) was a Thursday
JSDay(year, monthIndex, day) ==
  LET ym == JSFullYear(year) + (monthIndex \div 12)
      mn == monthIndex % 12
  IN  (DaysFromCivil(ym, mn + 1, 1) + day - 1 + 4) % 7

\* (variant: February always has 28 days)
getDaysInMonth_NoLeap(year, month) ==
  IF month = 2 THEN 28 ELSE JSDate(year, month, 0).day

\* new Date(year, month, 0).getDate(): day 0 of the month after `month`
getDaysInMonth(year, month) == JSDate(year, month, 0).day

startOfMonth(date) == createDate(date.year, date.month, 1)

getWeekday(date) == JSDay(date.year, date.month - 1, date.day)

DAYS_IN_WEEK == 7

CALENDAR_WEEKS == 6

DAYS_PER_CALENDAR == DAYS_IN_WEEK * CALENDAR_WEEKS

\* (variant: the lead is counted from Sunday whatever the week's first day)
gridArgs_SundayStart(month, weekStartsOn) ==
  LET firstOfMonth == startOfMonth(month)
      firstWeekday == getWeekday(firstOfMonth)
      prevMonth    == addMonths(month, -1)
  IN  [ daysFromPrevMonth |-> firstWeekday,
        prevMonth         |-> prevMonth,
        daysInPrevMonth   |-> getDaysInMonth(prevMonth.year, prevMonth.month),
        daysInMonth       |-> getDaysInMonth(month.year, month.month),
        nextMonth         |-> addMonths(month, 1) ]

\* The values generateCalendarDays computes before its loops
gridArgs(month, weekStartsOn) ==
  LET firstOfMonth == startOfMonth(month)
      firstWeekday == getWeekday(firstOfMonth)
      prevMonth    == addMonths(month, -1)
  IN  [ daysFromPrevMonth |-> (firstWeekday - weekStartsOn + 7) % 7,
        prevMonth         |-> prevMonth,
        daysInPrevMonth   |-> getDaysInMonth(prevMonth.year, prevMonth.month),
        daysInMonth       |-> getDaysInMonth(month.year, month.month),
        nextMonth         |-> addMonths(month, 1) ]

\* for (let i = daysFromPrevMonth - 1; i >= 0; i--)
\*   days.push(createDate(prevMonth.year, prevMonth.month, daysInPrevMonth - i))
pushPrevMonth(prevMonth, daysInPrevMonth, daysFromPrevMonth) ==
  [k \in 1..daysFromPrevMonth |->
     createDate(prevMonth.year, prevMonth.month,
                daysInPrevMonth - (daysFromPrevMonth - k))]

\* for (let day = 1; day <= daysInMonth; day++)
\*   days.push(createDate(month.year, month.month, day))
pushMonth(days, month, daysInMonth) ==
  days \o [day \in 1..daysInMonth |-> createDate(month.year, month.month, day)]

\* (variant: the grid is filled up to the end of a week only)
pushNextMonth_ToEndOfWeek(days, nextMonth) ==
  days \o [day \in 1..((DAYS_IN_WEEK - (Len(days) % DAYS_IN_WEEK)) % DAYS_IN_WEEK) |->
             createDate(nextMonth.year, nextMonth.month, day)]

\* remainingDays = DAYS_PER_CALENDAR - days.length;
\* for (let day = 1; day <= remainingDays; day++)
\*   days.push(createDate(nextMonth.year, nextMonth.month, day))
pushNextMonth(days, nextMonth) ==
  days \o [day \in 1..(DAYS_PER_CALENDAR - Len(days)) |->
             createDate(nextMonth.year, nextMonth.month, day)]

\* The days pushed in order: the tail of the previous month, the month, the
\* head of the next month.  (The values are bound by set membership so that
\* each is computed once.)
generateCalendarDays(month, weekStartsOn) ==
  CHOOSE result \in
    UNION { { pushNextMonth(days, a.nextMonth) :
                days \in { pushMonth(pushPrevMonth(a.prevMonth, a.daysInPrevMonth,
                                                   a.daysFromPrevMonth),
                                     month, a.daysInMonth) } } :
            a \in { gridArgs(month, weekStartsOn) } } : TRUE

\* range is a record of start and end, each a date or Null
\* (variant: the end of the range is left out)
isWithinRange_EndExcluded(date, range) ==
  IF isNullish(range.start) \/ isNullish(range.end) THEN FALSE
  ELSE (isAfter(date, range.start) \/ isSameDay(date, range.start))
         /\ isBefore(date, range.end)

isWithinRange(date, range) ==
  IF isNullish(range.start) \/ isNullish(range.end) THEN FALSE
  ELSE (isAfter(date, range.start) \/ isSameDay(date, range.start))
         /\ (isBefore(date, range.end) \/ isSameDay(date, range.end))

\* A JavaScript object with optional keys (a Partial<LocaleConfig>): the
\* record of the keys that are present.  { ...a, ...b }
spread(a, b) ==
  [k \in DOMAIN a \cup DOMAIN b |-> IF k \in DOMAIN b THEN b[k] ELSE a[k]]

DEFAULT_LOCALE == [locale |-> "en-US", weekStartsOn |-> 0]

\* date.toLocaleDateString('en-US', { weekday: 'short' }), by date.getDay()
\* (the names of another config.locale are in another language)
weekdayShort == << "Sun", "Mon", "Tue", "Wed", "Thu", "Fri", "Sat" >>

\* (variant: the names always start on Sunday)
getWeekdayNames_FromSunday(locale) ==
  LET config == spread(DEFAULT_LOCALE, locale)
  IN  IF "dayNamesShort" \in DOMAIN config /\ config.dayNamesShort # Undefined
      THEN config.dayNamesShort
      ELSE List([i \in 1..7 |-> weekdayShort[JSDay(1970, 0, 4 + (i - 1)) + 1]])

\* baseDate is Sunday 1970-01-04; name i is that of the day
\* baseDate.setDate(4 + dayIndex), dayIndex = (config.weekStartsOn + i) % 7
getWeekdayNames(locale) ==
  LET config == IF locale = Undefined THEN DEFAULT_LOCALE
                ELSE spread(DEFAULT_LOCALE, locale)
  IN  IF "dayNamesShort" \in DOMAIN config /\ config.dayNamesShort # Undefined
      THEN config.dayNamesShort
      ELSE List([i \in 1..7 |->
                   weekdayShort[JSDay(1970, 0,
                                      4 + ((config.weekStartsOn + (i - 1)) % 7)) + 1]])

\* A JavaScript string: the sequence of its characters
DigitChars == << "0", "1", "2", "3", "4", "5", "6", "7", "8", "9" >>

\* \d of a regular expression
isDigit(c) == \E i \in 1..Len(DigitChars) : DigitChars[i] = c

\* the value of a digit character
digitOf(c) == (CHOOSE i \in 1..Len(DigitChars) : DigitChars[i] = c) - 1

RECURSIVE digitsOf(_)
\* the decimal digits of a non-negative integer
digitsOf(n) ==
  IF n < 10 THEN << DigitChars[n + 1] >>
  ELSE digitsOf(n \div 10) \o << DigitChars[(n % 10) + 1] >>

\* Number.prototype.toString() of an integer
toString(n) == IF n < 0 THEN << "-" >> \o digitsOf(-n) ELSE digitsOf(n)

\* String.prototype.padStart with a one-character padString
padStart(str, targetLength, padString) ==
  IF Len(str) >= targetLength THEN str
  ELSE [i \in 1..(targetLength - Len(str)) |-> padString] \o str

RECURSIVE parseInt(_)
\* parseInt(str, 10) of a string of digits
parseInt(str) ==
  IF str = << >> THEN 0
  ELSE parseInt(SubSeq(str, 1, Len(str) - 1)) * 10 + digitOf(str[Len(str)])

\* (variant: the year is not padded)
toISOString_YearUnpadded(date) ==
  toString(date.year) \o << "-" >> \o padStart(toString(date.month), 2, "0")
    \o << "-" >> \o padStart(toString(date.day), 2, "0")

toISOString(date) ==
  LET year  == padStart(toString(date.year), 4, "0")
      month == padStart(toString(date.month), 2, "0")
      day   == padStart(toString(date.day), 2, "0")
  IN  year \o << "-" >> \o month \o << "-" >> \o day

\* /^(\d{4})-(\d{2})-(\d{2})$/.exec(str): the List of the three groups, or
\* Null
execISO(str) ==
  IF /\ Len(str) = 10
     /\ \A i \in {1, 2, 3, 4, 6, 7, 9, 10} : isDigit(str[i])
     /\ str[5] = "-"
     /\ str[8] = "-"
  THEN List(<< SubSeq(str, 1, 4), SubSeq(str, 6, 7), SubSeq(str, 9, 10) >>)
  ELSE Null

\* (variant: one-digit months and days are accepted too)
fromISOString_Lenient(str) ==
  IF execISO(str) # Null
  THEN createDate(parseInt(execISO(str).items[1]), parseInt(execISO(str).items[2]),
                  parseInt(execISO(str).items[3]))
  ELSE IF /\ Len(str) = 8
          /\ \A i \in {1, 2, 3, 4, 6, 8} : isDigit(str[i])
          /\ str[5] = "-"
          /\ str[7] = "-"
  THEN createDate(parseInt(SubSeq(str, 1, 4)), parseInt(SubSeq(str, 6, 6)),
                  parseInt(SubSeq(str, 8, 8)))
  ELSE Null

fromISOString(str) ==
  LET match   == execISO(str)
      yearStr  == match.items[1]
      monthStr == match.items[2]
      dayStr   == match.items[3]
  IN  IF match = Null THEN Null
      ELSE IF yearStr = << >> \/ monthStr = << >> \/ dayStr = << >> THEN Null
      ELSE createDate(parseInt(yearStr), parseInt(monthStr), parseInt(dayStr))

\* ------------------------------------------------------- the input space
\* The days that events and props may name: NumDates consecutive days from
\* BaseDate on, across the January / February boundary.
BaseDate == createDate(2026, 1, 30)

D(i) == addDays(BaseDate, i - 1)

Dates == { D(i) : i \in 1..NumDates }

\* a DateRange {start, end}
Range(s, e) == [start |-> s, end |-> e]

EmptyRange == Range(Null, Null)

\* --------------------------------------------- CalendarProvider: its props
\* value / defaultValue / rangeValue / defaultRangeValue / minDate / maxDate
\* are Undefined when the caller leaves them out; onChange and onRangeChange
\* are TRUE when a handler is supplied.  disabledDates is the list after the
\* parameter default `disabledDates = []`.
ValueProps == {Undefined, Null, D(2)}

DefaultValueProps == {Undefined, D(4)}

RangeValueProps == {Undefined, EmptyRange, Range(D(2), Null)}

DefaultRangeValueProps ==
  {Undefined, Range(D(4), Null), Range(D(2), D(4)), Range(D(4), D(2))}

\* The constraints: none at all, or minDate = day 2, maxDate = the last day
\* but one and day 3 listed, which leaves day 1 before minDate, the last day
\* after maxDate, day 3 listed and the other days enabled.
ConstraintProps ==
  { [minDate |-> Undefined, maxDate |-> Undefined, disabledDates |-> List(<< >>)],
    [minDate |-> D(2), maxDate |-> D(NumDates - 1),
     disabledDates |-> List(<< D(3) >>)] }

PropsSet ==
  { p \in [ value             : ValueProps,
            defaultValue      : DefaultValueProps,
            onChange          : BOOLEAN,
            rangeValue        : RangeValueProps,
            defaultRangeValue : DefaultRangeValueProps,
            onRangeChange     : BOOLEAN,
            minDate           : {c.minDate : c \in ConstraintProps},
            maxDate           : {c.maxDate : c \in ConstraintProps},
            disabledDates     : {c.disabledDates : c \in ConstraintProps} ] :
      [minDate |-> p.minDate, maxDate |-> p.maxDate,
       disabledDates |-> p.disabledDates] \in ConstraintProps }

\* today() at mount
Todays == {D(1), D(NumDates)}

\* The values a caller may pass on a later render of a controlled picker
ValueRerenders == {Null, D(2), D(4)}

RangeValueRerenders == {EmptyRange, Range(D(2), Null), Range(D(2), D(4))}

VARIABLES
  props,                 \* the props of the latest render
  internalSelectedDate,  \* useState: the uncontrolled single selection
  internalRange,         \* useState: the uncontrolled range
  currentMonth,          \* useState: the month cursor
  focusedDate,           \* useState: the roving-focus date
  closure,               \* selectedDate / selectedRange held by the selectDate callback
  onChangeCalls,         \* onChange: how often it was called, and its last argument
  onRangeChangeCalls,    \* onRangeChange: the same
  lastEvent,             \* the entry point that ran last, and its argument
  leftMonth,             \* DateRangePicker useState: the left month of the
                         \* two-month view; Null where no such view is mounted
  rightProvider          \* the state of the CalendarProvider around the right
                         \* grid, where each grid has its own; Null otherwise

vars == << props, internalSelectedDate, internalRange, currentMonth,
           focusedDate, closure, onChangeCalls, onRangeChangeCalls, lastEvent,
           leftMonth, rightProvider >>

\* ------------------------------------------ CalendarProvider: derived values
\* (variant: a lone onRangeChange handler does not switch to range mode)
isRangeModeOf_IgnoresHandler(p) ==
  p.rangeValue # Undefined \/ p.defaultRangeValue # Undefined

isRangeModeOf(p) ==
  p.rangeValue # Undefined \/ p.defaultRangeValue # Undefined \/ p.onRangeChange

isControlledOf(p) == p.value # Undefined

isRangeControlledOf(p) == p.rangeValue # Undefined

initialDateOf(p, t) == Coalesce(p.value, Coalesce(p.defaultValue, t))

selectedDateOf(p, isd) == IF isControlledOf(p) THEN p.value ELSE isd

selectedRangeOf(p, ir) == IF isRangeControlledOf(p) THEN p.rangeValue ELSE ir

isRangeMode == isRangeModeOf(props)

isControlled == isControlledOf(props)

isRangeControlled == isRangeControlledOf(props)

\* what the context value exposes: selectedDate ?? null, and selectedRange
selectedDate == Coalesce(selectedDateOf(props, internalSelectedDate), Null)

selectedRange == selectedRangeOf(props, internalRange)

\* (variant: the disabledDates list is not passed on)
isDisabled_IgnoresList(date) ==
  isDateDisabled(date, props.minDate, props.maxDate, Undefined)

isDisabled(date) ==
  isDateDisabled(date, props.minDate, props.maxDate, props.disabledDates)

\* date.year * 10000 + date.month * 100 + date.day
dateValue(date) == date.year * 10000 + date.month * 100 + date.day

\* (variant: the endpoints count as inside)
isInSelectedRange_Inclusive(date) ==
  IF isNullish(selectedRange.start) \/ isNullish(selectedRange.end) THEN FALSE
  ELSE /\ dateValue(date) >= dateValue(selectedRange.start)
       /\ dateValue(date) <= dateValue(selectedRange.end)

isInSelectedRange(date) ==
  IF isNullish(selectedRange.start) \/ isNullish(selectedRange.end) THEN FALSE
  ELSE /\ dateValue(date) > dateValue(selectedRange.start)
       /\ dateValue(date) < dateValue(selectedRange.end)

isRangeStart(date) == isSameDay(date, selectedRange.start)

isRangeEnd(date) == isSameDay(date, selectedRange.end)

\* (variant: the selection is missing from the dependency list, so the
\* callback keeps the selection of the first render)
selectDateDeps_Stale(held, rendered) == held

\* useCallback(..., [isRangeMode, selectedRange, selectedDate, ...]): the
\* selectDate callback is rebuilt on every render in which the selection it
\* reads has changed, so after a render it holds the rendered selection.
selectDateDeps(held, rendered) == rendered

Rendered(p, isd, ir) ==
  [selectedDate |-> selectedDateOf(p, isd), selectedRange |-> selectedRangeOf(p, ir)]

\* a handler that has not been called yet
NoCalls == [count |-> 0, last |-> Undefined]

\* ------------------------------------------------------------------- mount
Init ==
  /\ props \in PropsSet
  /\ internalSelectedDate = Coalesce(props.defaultValue, Null)
  /\ internalRange = Coalesce(props.defaultRangeValue, EmptyRange)
  /\ \E t \in Todays :
       /\ currentMonth = initialDateOf(props, t)
       /\ focusedDate = initialDateOf(props, t)
  /\ closure = Rendered(props, internalSelectedDate, internalRange)
  /\ onChangeCalls = NoCalls
  /\ onRangeChangeCalls = NoCalls
  /\ lastEvent = [op |-> "mount", date |-> Null]
  /\ leftMonth = Null
  /\ rightProvider = Null

\* ---------------------------------------------------------------- actions
\* (variant: a completed range is extended instead of restarted)
newRangeOf_NoRestart(rng, date) ==
  IF isNullish(rng.start)
  THEN Range(date, Null)
  ELSE IF dateValue(date) < dateValue(rng.start)
       THEN Range(date, rng.start)
       ELSE Range(rng.start, date)

\* (variant: the clicked date always becomes the end)
newRangeOf_NoSwap(rng, date) ==
  IF isNullish(rng.start) \/ (~isNullish(rng.start) /\ ~isNullish(rng.end))
  THEN Range(date, Null)
  ELSE Range(rng.start, date)

\* (variant: the comparison is turned around)
newRangeOf_WrongCompare(rng, date) ==
  IF isNullish(rng.start) \/ (~isNullish(rng.start) /\ ~isNullish(rng.end))
  THEN Range(date, Null)
  ELSE IF dateValue(date) > dateValue(rng.start)
       THEN Range(date, rng.start)
       ELSE Range(rng.start, date)

\* selectDate, range mode: the range computed from the range the callback
\* holds and the clicked date
newRangeOf(rng, date) ==
  IF isNullish(rng.start) \/ (~isNullish(rng.start) /\ ~isNullish(rng.end))
  THEN Range(date, Null)
  ELSE IF dateValue(date) < dateValue(rng.start)
       THEN Range(date, rng.start)
       ELSE Range(rng.start, date)

\* (variant: no toggle)
newValueOf_NoToggle(sel, date) == date

\* selectDate, single mode: isSameDay(date, selectedDate) ? null : date
newValueOf(sel, date) == IF isSameDay(date, sel) THEN Null ELSE date

\* setInternalRange(newRange) unless the range is controlled
internalRangeAfter(p, ir, newRange) ==
  IF ~isRangeControlledOf(p) THEN newRange ELSE ir

\* (variant: the internal copy is written whatever the mode)
internalSelectedDateAfter_AlwaysWrites(p, isd, newValue) == newValue

\* setInternalSelectedDate(newValue) unless the value is controlled
internalSelectedDateAfter(p, isd, newValue) ==
  IF ~isControlledOf(p) THEN newValue ELSE isd

\* (variant: the handler is never called)
callsAfter_Dropped(handler, calls, arg) == calls

\* onRangeChange?.(newRange) / onChange?.(newValue): the call is made when a
\* handler was supplied
callsAfter(handler, calls, arg) ==
  IF handler THEN [count |-> calls.count + 1, last |-> arg] ELSE calls

\* the body of the selectDate callback, and the render that follows it
selectDateCall(date) ==
  /\ UNCHANGED << props, currentMonth, focusedDate, leftMonth, rightProvider >>
  /\ IF isDisabled(date)
     THEN UNCHANGED << internalSelectedDate, internalRange, closure,
                       onChangeCalls, onRangeChangeCalls >>
     ELSE IF isRangeMode
     THEN LET newRange == newRangeOf(closure.selectedRange, date) IN
          /\ props.onRangeChange => onRangeChangeCalls.count < MaxCalls
          /\ internalRange' = internalRangeAfter(props, internalRange, newRange)
          /\ onRangeChangeCalls' =
               callsAfter(props.onRangeChange, onRangeChangeCalls, newRange)
          /\ UNCHANGED << internalSelectedDate, onChangeCalls >>
          /\ closure' = selectDateDeps(closure,
                          Rendered(props, internalSelectedDate, internalRange'))
     ELSE LET newValue == newValueOf(closure.selectedDate, date) IN
          /\ props.onChange => onChangeCalls.count < MaxCalls
          /\ internalSelectedDate' =
               internalSelectedDateAfter(props, internalSelectedDate, newValue)
          /\ onChangeCalls' = callsAfter(props.onChange, onChangeCalls, newValue)
          /\ UNCHANGED << internalRange, onRangeChangeCalls >>
          /\ closure' = selectDateDeps(closure,
                          Rendered(props, internalSelectedDate', internalRange))

selectDate(date) ==
  /\ lastEvent' = [op |-> "selectDate", date |-> date]
  /\ selectDateCall(date)

\* The caller renders the provider again with another controlled value
\* (controlled-ness itself never changes).
rerenderValue(v) ==
  /\ isControlled
  /\ v # props.value
  /\ props' = [props EXCEPT !.value = v]
  /\ closure' = selectDateDeps(closure,
                  Rendered(props', internalSelectedDate, internalRange))
  /\ lastEvent' = [op |-> "rerender", date |-> Null]
  /\ UNCHANGED << internalSelectedDate, internalRange, currentMonth,
                  focusedDate, onChangeCalls, onRangeChangeCalls, leftMonth, rightProvider >>

rerenderRangeValue(r) ==
  /\ isRangeControlled
  /\ r # props.rangeValue
  /\ props' = [props EXCEPT !.rangeValue = r]
  /\ closure' = selectDateDeps(closure,
                  Rendered(props', internalSelectedDate, internalRange))
  /\ lastEvent' = [op |-> "rerender", date |-> Null]
  /\ UNCHANGED << internalSelectedDate, internalRange, currentMonth,
                  focusedDate, onChangeCalls, onRangeChangeCalls, leftMonth, rightProvider >>

Next ==
  \/ \E date \in Dates : selectDate(date)
  \/ \E v \in ValueRerenders : rerenderValue(v)
  \/ \E r \in RangeValueRerenders : rerenderRangeValue(r)

Spec == Init /\ [][Next]_vars

\* ------------------------------------------------------ the rendered picker
\* A mounted picker: the provider with a month grid of Day cells below it,
\* in the single-month view (MonthGrid) or in the two-month view of
\* DateRangePicker (two MonthGridForMonth).  Its props add weekStartsOn and
\* numberOfMonths to the provider's.
NavBase ==
  [ value |-> Undefined, defaultValue |-> Undefined, onChange |-> TRUE,
    rangeValue |-> Undefined, defaultRangeValue |-> Undefined,
    onRangeChange |-> FALSE,
    minDate |-> Undefined, maxDate |-> Undefined, disabledDates |-> List(<< >>),
    locale |-> Undefined, weekStartsOn |-> 0, numberOfMonths |-> 1 ]

\* a single-date picker without constraints; one with minDate <= maxDate and
\* a listed date, its weeks starting on Monday; one whose minDate is after
\* its maxDate; a two-month range picker
NavPropsSet ==
  { NavBase,
    [NavBase EXCEPT !.minDate = createDate(2024, 2, 10),
                    !.maxDate = createDate(2024, 3, 5),
                    !.disabledDates = List(<< createDate(2024, 3, 1) >>),
                    !.weekStartsOn = 1],
    [NavBase EXCEPT !.minDate = createDate(2024, 3, 5),
                    !.maxDate = createDate(2024, 2, 10)],
    [NavBase EXCEPT !.onChange = FALSE, !.onRangeChange = TRUE,
                    !.numberOfMonths = 2] }

\* today() at mount: the last day of a 31-day January, a leap day, and the
\* last day of a year
NavTodays ==
  { createDate(2024, 1, 31), createDate(2024, 2, 29), createDate(2025, 12, 31) }

\* the arguments a consumer passes to the context's setFocusedDate
FocusArgs == { createDate(2024, 2, 15), createDate(2026, 6, 20) }

\* event.key: the focus-moving keys, the selecting keys, and two other keys
MoveKeys ==
  { "ArrowLeft", "ArrowRight", "ArrowUp", "ArrowDown", "Home", "End",
    "PageUp", "PageDown" }

SelectKeys == { "Enter", " " }

OtherKeys == { "Tab", "a" }

\* (event.key, event.shiftKey): every key without shift, and the paging keys
\* and ArrowLeft with shift
KeyEvents ==
  { [key |-> k, shiftKey |-> FALSE] : k \in MoveKeys \cup SelectKeys \cup OtherKeys }
    \cup
  { [key |-> k, shiftKey |-> TRUE] : k \in {"PageUp", "PageDown", "ArrowLeft"} }

\* DateRangePicker: value?.start ?? defaultValue?.start ?? today(), where its
\* value / defaultValue are the provider's rangeValue / defaultRangeValue
initialMonthOf(p, t) ==
  Coalesce(IF isNullish(p.rangeValue) THEN Undefined ELSE p.rangeValue.start,
    Coalesce(IF isNullish(p.defaultRangeValue) THEN Undefined
             ELSE p.defaultRangeValue.start, t))

\* (variant: the year of the right month is the year of the left month)
rightMonth_SameYear == createDate(leftMonth.year, (leftMonth.month % 12) + 1, 1)

rightMonth == addMonths(leftMonth, 1)

\* localeConfig?.key is set: the locale prop is given and holds the key
has(localeConfig, key) == localeConfig # Undefined /\ key \in DOMAIN localeConfig

\* The provider's locale: the locale prop over the defaults, its
\* weekStartsOn before the weekStartsOn prop
locale ==
  [ locale |-> IF has(props.locale, "locale") THEN props.locale.locale
               ELSE "en-US",
    weekStartsOn |-> IF has(props.locale, "weekStartsOn")
                     THEN props.locale.weekStartsOn ELSE props.weekStartsOn,
    dayNamesShort |-> IF has(props.locale, "dayNamesShort")
                      THEN props.locale.dayNamesShort ELSE Undefined ]

\* useMemo(() => generateCalendarDays(currentMonth, locale.weekStartsOn))
calendarDays == generateCalendarDays(currentMonth, locale.weekStartsOn)

\* A rendered month grid: its row of column headers and its day cells.
\* MonthGrid and MonthGridInternal read both from the context
MonthGrid == [ weekdayNames |-> getWeekdayNames(locale), days |-> calendarDays ]

\* MonthGridForMonth takes its days from the weekStartsOn prop and its
\* headers from the locale prop
MonthGridForMonth(month) ==
  [ weekdayNames |-> getWeekdayNames(props.locale),
    days |-> generateCalendarDays(month, props.weekStartsOn) ]

\* CalendarHeader: the previous-month button is disabled unless
\* canGoToPrevious, the next-month button unless canGoToNext
\* (variant: the month of minDate is compared, not the month after it)
canGoToPrevious_FromMinMonth ==
  \/ props.minDate = Undefined
  \/ ~isBefore(startOfMonth(currentMonth), startOfMonth(props.minDate))

canGoToPrevious ==
  \/ props.minDate = Undefined
  \/ ~isBefore(startOfMonth(currentMonth),
               startOfMonth(addMonths(props.minDate, 1)))

\* (variant: the month shown is compared, not the month after it)
canGoToNext_FromMaxMonth ==
  \/ props.maxDate = Undefined
  \/ ~isAfter(startOfMonth(currentMonth), startOfMonth(props.maxDate))

canGoToNext ==
  \/ props.maxDate = Undefined
  \/ ~isAfter(startOfMonth(addMonths(currentMonth, 1)),
              startOfMonth(props.maxDate))

\* The dates of the Day cells on screen, in document order: MonthGrid maps
\* calendarDays; the two-month view maps the days of leftMonth, then those
\* of rightMonth
RenderedCells ==
  IF leftMonth = Null THEN calendarDays
  ELSE generateCalendarDays(leftMonth, props.weekStartsOn)
         \o generateCalendarDays(rightMonth, props.weekStartsOn)

\* Day: tabIndex={isFocused ? 0 : -1}, isFocused = isSameDay(date, focusedDate)
tabIndexOf(date) == IF isSameDay(date, focusedDate) THEN 0 ELSE -1

\* The cells a key event can arrive at: the cell the last click or key event
\* was on (the DOM focus stays where it is; no code moves it), or the
\* tabbable cell, reached with Tab
KeyCells ==
  { d \in {focusedDate} \cup (IF lastEvent.date = Null THEN {} ELSE {lastEvent.date}) :
      \E cells \in {RenderedCells} : \E i \in 1..Len(cells) : cells[i] = d }

\* The ends of the grid, for clicks: the first and the last cell on screen
ClickCells ==
  UNION { {cells[1], cells[Len(cells)]} : cells \in {RenderedCells} }

\* (variant: only minDate is applied)
clampDate_OnlyMin(newDate) ==
  IF props.minDate # Undefined
       /\ isDateDisabled(newDate, props.minDate, Undefined, Undefined)
  THEN props.minDate
  ELSE newDate

\* Day.clampDate
clampDate(newDate) ==
  IF props.minDate # Undefined
       /\ isDateDisabled(newDate, props.minDate, Undefined, Undefined)
  THEN props.minDate
  ELSE IF props.maxDate # Undefined
            /\ isDateDisabled(newDate, Undefined, props.maxDate, Undefined)
       THEN props.maxDate
       ELSE newDate

\* Day.handleKeyDown, the switch on event.key: the argument of clampDate for
\* a focus-moving key
moveTarget(key, shiftKey, date) ==
  CASE key = "ArrowLeft"  -> addDays(date, -1)
    [] key = "ArrowRight" -> addDays(date, 1)
    [] key = "ArrowUp"    -> addDays(date, -7)
    [] key = "ArrowDown"  -> addDays(date, 7)
    [] key = "Home"       -> createDate(date.year, date.month, 1)
    [] key = "End"        ->
         createDate(date.year, date.month, getDaysInMonth(date.year, date.month))
    [] key = "PageUp" /\ shiftKey ->
         LET maxDay == getDaysInMonth(date.year - 1, date.month)
         IN  createDate(date.year - 1, date.month,
                        IF date.day < maxDay THEN date.day ELSE maxDay)
    [] key = "PageUp" /\ ~shiftKey ->
         LET prevMonth == addMonths(date, -1)
             maxDay    == getDaysInMonth(prevMonth.year, prevMonth.month)
         IN  createDate(prevMonth.year, prevMonth.month,
                        IF date.day < maxDay THEN date.day ELSE maxDay)
    [] key = "PageDown" /\ shiftKey ->
         LET maxDay == getDaysInMonth(date.year + 1, date.month)
         IN  createDate(date.year + 1, date.month,
                        IF date.day < maxDay THEN date.day ELSE maxDay)
    [] key = "PageDown" /\ ~shiftKey ->
         LET nextMonth == addMonths(date, 1)
             maxDay    == getDaysInMonth(nextMonth.year, nextMonth.month)
         IN  createDate(nextMonth.year, nextMonth.month,
                        IF date.day < maxDay THEN date.day ELSE maxDay)

\* ---------------------------------------------------- mount of a picker
NavInit ==
  /\ props \in NavPropsSet
  /\ internalSelectedDate = Coalesce(props.defaultValue, Null)
  /\ internalRange = Coalesce(props.defaultRangeValue, EmptyRange)
  /\ \E t \in NavTodays :
       /\ currentMonth = initialDateOf(props, t)
       /\ focusedDate = initialDateOf(props, t)
       /\ leftMonth = IF props.numberOfMonths = 2 THEN initialMonthOf(props, t)
                      ELSE Null
  /\ rightProvider = Null
  /\ closure = Rendered(props, internalSelectedDate, internalRange)
  /\ onChangeCalls = NoCalls
  /\ onRangeChangeCalls = NoCalls
  /\ lastEvent = [op |-> "mount", date |-> Null, n |-> 0]

\* ------------------------------------------------- events of a picker
\* Each event is counted in lastEvent.n; a run makes MaxEvents events.
goToPreviousMonth ==
  /\ lastEvent.n < MaxEvents
  /\ leftMonth = Null
  /\ currentMonth' = addMonths(currentMonth, -1)
  /\ lastEvent' = [op |-> "goToPreviousMonth", date |-> Null,
                   from |-> currentMonth, n |-> lastEvent.n + 1]
  /\ UNCHANGED << props, internalSelectedDate, internalRange, focusedDate,
                  closure, onChangeCalls, onRangeChangeCalls, leftMonth, rightProvider >>

goToNextMonth ==
  /\ lastEvent.n < MaxEvents
  /\ leftMonth = Null
  /\ currentMonth' = addMonths(currentMonth, 1)
  /\ lastEvent' = [op |-> "goToNextMonth", date |-> Null,
                   from |-> currentMonth, n |-> lastEvent.n + 1]
  /\ UNCHANGED << props, internalSelectedDate, internalRange, focusedDate,
                  closure, onChangeCalls, onRangeChangeCalls, leftMonth, rightProvider >>

\* the previous / next buttons of the two-month view: setLeftMonth
DateRangePicker_goToPreviousMonth ==
  /\ lastEvent.n < MaxEvents
  /\ leftMonth # Null
  /\ leftMonth' = addMonths(leftMonth, -1)
  /\ lastEvent' = [op |-> "DateRangePicker.goToPreviousMonth", date |-> Null,
                   n |-> lastEvent.n + 1]
  /\ UNCHANGED << props, internalSelectedDate, internalRange, currentMonth,
                  focusedDate, closure, onChangeCalls, onRangeChangeCalls,
                  rightProvider >>

DateRangePicker_goToNextMonth ==
  /\ lastEvent.n < MaxEvents
  /\ leftMonth # Null
  /\ leftMonth' = addMonths(leftMonth, 1)
  /\ lastEvent' = [op |-> "DateRangePicker.goToNextMonth", date |-> Null,
                   n |-> lastEvent.n + 1]
  /\ UNCHANGED << props, internalSelectedDate, internalRange, currentMonth,
                  focusedDate, closure, onChangeCalls, onRangeChangeCalls,
                  rightProvider >>

\* A consumer of the context calls setFocusedDate(date): the context value
\* passes the useState setter of focusedDate itself, which writes nothing
\* else.
setFocusedDate(date) ==
  /\ lastEvent.n < MaxEvents
  /\ focusedDate' = date
  /\ lastEvent' = [op |-> "setFocusedDate", date |-> Null, arg |-> date,
                   n |-> lastEvent.n + 1]
  /\ UNCHANGED << props, internalSelectedDate, internalRange, currentMonth,
                  closure, onChangeCalls, onRangeChangeCalls, leftMonth, rightProvider >>

\* (variant: Space is not handled)
isSelectKey_EnterOnly(key) == key = "Enter"

\* case 'Enter': case ' ':
isSelectKey(key) == key = "Enter" \/ key = " "

\* Day.handleClick: if (!disabled) selectDate(date)
handleClick(date) ==
  IF ~isDisabled(date) THEN selectDateCall(date)
  ELSE UNCHANGED << props, internalSelectedDate, internalRange, currentMonth,
                    focusedDate, closure, onChangeCalls, onRangeChangeCalls,
                    leftMonth, rightProvider >>

\* a click on the Day cell of `date`
click(date) ==
  /\ lastEvent.n < MaxEvents
  /\ lastEvent' = [op |-> "click", date |-> date, n |-> lastEvent.n + 1]
  /\ handleClick(date)

\* Day.handleKeyDown on the cell of `date`.  lastEvent.target is the argument
\* handed to clampDate (Null for a key that moves nothing).
handleKeyDown(date, key, shiftKey) ==
  /\ lastEvent.n < MaxEvents
  /\ lastEvent' = [op |-> "keyDown", date |-> date, key |-> key,
                   shiftKey |-> shiftKey,
                   target |-> IF key \in MoveKeys
                              THEN moveTarget(key, shiftKey, date) ELSE Null,
                   n |-> lastEvent.n + 1]
  /\ IF key \in MoveKeys
     THEN LET newFocusedDate == clampDate(moveTarget(key, shiftKey, date)) IN
          /\ focusedDate' = newFocusedDate
          /\ currentMonth' = IF ~isSameMonth(newFocusedDate, currentMonth)
                             THEN newFocusedDate ELSE currentMonth
          /\ UNCHANGED << props, internalSelectedDate, internalRange, closure,
                          onChangeCalls, onRangeChangeCalls, leftMonth, rightProvider >>
     ELSE IF isSelectKey(key)
     THEN handleClick(date)
     ELSE UNCHANGED << props, internalSelectedDate, internalRange, currentMonth,
                       focusedDate, closure, onChangeCalls, onRangeChangeCalls,
                       leftMonth, rightProvider >>

NavNext ==
  \/ goToPreviousMonth
  \/ goToNextMonth
  \/ DateRangePicker_goToPreviousMonth
  \/ DateRangePicker_goToNextMonth
  \/ \E date \in FocusArgs : setFocusedDate(date)
  \/ \E date \in ClickCells : click(date)
  \/ \E date \in KeyCells, e \in KeyEvents : handleKeyDown(date, e.key, e.shiftKey)

NavSpec == NavInit /\ [][NavNext]_vars

\* ------------------------------------------------------- the month grid
\* generateCalendarDays over anchor months and week starts: a provider is
\* mounted on an anchor month with one of the seven weekStartsOn values and
\* is paged back and forth; calendarDays is the grid of its currentMonth.
\* The anchors: every month of 2026, the Februaries of a leap year, of a
\* century year that is a leap year and of one that is not, and months of
\* the years 0..99 and of a year before them.
GridAnchors ==
  { createDate(2026, m, 15) : m \in 1..12 }
    \cup { createDate(2024, 2, 29), createDate(2000, 2, 1), createDate(2100, 2, 28) }
    \cup { createDate(50, 3, 10), createDate(96, 2, 29), createDate(99, 12, 31),
           createDate(-1, 1, 1) }

GridInit ==
  /\ props \in { [NavBase EXCEPT !.weekStartsOn = w] : w \in 0..6 }
  /\ internalSelectedDate = Coalesce(props.defaultValue, Null)
  /\ internalRange = Coalesce(props.defaultRangeValue, EmptyRange)
  /\ \E t \in GridAnchors :
       /\ currentMonth = initialDateOf(props, t)
       /\ focusedDate = initialDateOf(props, t)
  /\ leftMonth = Null
  /\ rightProvider = Null
  /\ closure = Rendered(props, internalSelectedDate, internalRange)
  /\ onChangeCalls = NoCalls
  /\ onRangeChangeCalls = NoCalls
  /\ lastEvent = [op |-> "mount", date |-> Null, n |-> 0]

GridNext == goToPreviousMonth \/ goToNextMonth

GridSpec == GridInit /\ [][GridNext]_vars

\* ------------------------------------------------- the date functions
\* The functions of utils/date.ts, and the provider's isDisabled, called as
\* the tests call them: each step is one call, with arguments of the sets
\* below, and lastEvent holds the call and what it returned.  The calls
\* after the first are given what the call before them returned: a date
\* returned by addDays or addMonths, the string returned by toISOString.
\* The dates: month ends, leap days, the ends of a year, a century year
\* that is a leap year and one that is not, the years 0..99 and the years
\* around them, a negative year, and the years around 10000.
DateArgs ==
  { createDate(2023, 12, 31), createDate(2024, 1, 1), createDate(2024, 2, 28),
    createDate(2024, 2, 29), createDate(2024, 3, 1), createDate(2026, 1, 31),
    createDate(2026, 3, 5), createDate(2000, 2, 29), createDate(2100, 2, 28),
    createDate(9999, 12, 31), createDate(10000, 1, 1),
    createDate(100, 1, 1), createDate(99, 12, 31), createDate(50, 3, 10),
    createDate(4, 2, 29), createDate(0, 2, 29), createDate(-1, 1, 1) }

\* the amounts of addDays and addMonths
Amounts == { -366, -365, -31, -13, -12, -1, 0, 1, 12, 13, 31, 365, 366 }

\* the years of getDaysInMonth
YearArgs ==
  { -4, 0, 4, 50, 96, 99, 100, 1900, 2000, 2023, 2024, 2025, 2026, 2100 }

\* the dates of the comparisons: they differ in the year, in the month and
\* in the day
CompareArgs ==
  { createDate(2023, 12, 31), createDate(2024, 2, 9), createDate(2024, 2, 10),
    createDate(2024, 2, 11), createDate(2024, 3, 1), createDate(2024, 3, 5),
    createDate(2024, 3, 6), createDate(2025, 1, 1) }

\* the ranges of isWithinRange: each endpoint a date or null
RangeArgs ==
  { Range(start, end) : start \in CompareArgs \cup {Null},
                        end \in CompareArgs \cup {Null} }

\* the minDate and maxDate of isDateDisabled
BoundArgs == { Undefined, createDate(2024, 2, 10), createDate(2024, 3, 5) }

\* the disabledDates of isDateDisabled
ListArgs ==
  { Undefined, List(<< >>),
    List(<< createDate(2024, 3, 1), createDate(2024, 2, 9) >>) }

\* the strings of fromISOString: dates written as toISOString writes them,
\* numbers that are no date, and strings that differ from the pattern in
\* their length, their separators and their characters
IsoStrings ==
  { << "2", "0", "2", "6", "-", "0", "1", "-", "1", "9" >>,
    << "0", "0", "5", "0", "-", "0", "3", "-", "1", "0" >>,
    << "2", "0", "2", "6", "-", "1", "3", "-", "4", "5" >>,
    << "0", "0", "0", "0", "-", "0", "0", "-", "0", "0" >>,
    << "i", "n", "v", "a", "l", "i", "d" >>,
    << >>,
    << "2", "0", "2", "6", "-", "1", "-", "5" >>,
    << "2", "0", "2", "6", "-", "0", "1", "-", "1", "9", "T" >>,
    << " ", "2", "0", "2", "6", "-", "0", "1", "-", "1", "9" >>,
    << "2", "0", "2", "6", "/", "0", "1", "/", "1", "9" >>,
    << "2", "0", "2", "6", "0", "1", "1", "9" >>,
    << "2", "0", "2", "6", "-", "0", "1", "-", "1", "x" >>,
    << "-", "2", "0", "2", "-", "0", "1", "-", "1", "9" >>,
    << "1", "2", "0", "2", "6", "-", "0", "1", "-", "1", "9" >> }

\* the list of a dayNamesShort override
CustomNames == List(<< "D", "L", "M", "M", "J", "V", "S" >>)

\* the locales of getWeekdayNames: no weekStartsOn, each weekStartsOn, and
\* a dayNamesShort override without and with a weekStartsOn
LocaleArgs ==
  { [locale |-> "en-US"] }
    \cup { [weekStartsOn |-> w] : w \in 0..6 }
    \cup { [dayNamesShort |-> CustomNames] }
    \cup { [weekStartsOn |-> w, dayNamesShort |-> CustomNames] : w \in {0, 1, 3} }

\* the providers of the isDisabled calls: the single-month pickers
DatePropsSet == { p \in NavPropsSet : p.numberOfMonths = 1 }

DateInit ==
  /\ props \in DatePropsSet
  /\ internalSelectedDate = Coalesce(props.defaultValue, Null)
  /\ internalRange = Coalesce(props.defaultRangeValue, EmptyRange)
  /\ currentMonth = initialDateOf(props, createDate(2024, 2, 29))
  /\ focusedDate = initialDateOf(props, createDate(2024, 2, 29))
  /\ leftMonth = Null
  /\ rightProvider = Null
  /\ closure = Rendered(props, internalSelectedDate, internalRange)
  /\ onChangeCalls = NoCalls
  /\ onRangeChangeCalls = NoCalls
  /\ lastEvent = [op |-> "mount", date |-> Null, n |-> 0]

\* The arguments of the first call of a run
FreshArgs(args) == IF lastEvent.op = "mount" THEN args ELSE {}

\* The dates a call may be given
DateInputs ==
  FreshArgs(DateArgs) \cup (IF lastEvent.op \in {"addDays", "addMonths"}
                            THEN {lastEvent.result} ELSE {})

\* The strings a call may be given
StringInputs ==
  FreshArgs(IsoStrings) \cup (IF lastEvent.op = "toISOString"
                              THEN {lastEvent.result} ELSE {})

\* A call changes nothing of the provider
returned(call) ==
  /\ lastEvent.n < MaxEvents
  /\ lastEvent' = call
  /\ UNCHANGED << props, internalSelectedDate, internalRange, currentMonth,
                  focusedDate, closure, onChangeCalls, onRangeChangeCalls,
                  leftMonth, rightProvider >>

call_addDays(date, amount) ==
  returned([op |-> "addDays", date |-> date, amount |-> amount,
            result |-> addDays(date, amount), n |-> lastEvent.n + 1])

call_addMonths(date, amount) ==
  returned([op |-> "addMonths", date |-> date, amount |-> amount,
            result |-> addMonths(date, amount), n |-> lastEvent.n + 1])

call_getDaysInMonth(year, month) ==
  returned([op |-> "getDaysInMonth", year |-> year, month |-> month,
            result |-> getDaysInMonth(year, month), n |-> lastEvent.n + 1])

call_toISOString(date) ==
  returned([op |-> "toISOString", date |-> date,
            result |-> toISOString(date), n |-> lastEvent.n + 1])

call_fromISOString(str) ==
  returned([op |-> "fromISOString", str |-> str,
            result |-> fromISOString(str), n |-> lastEvent.n + 1])

call_isWithinRange(date, range) ==
  returned([op |-> "isWithinRange", date |-> date, range |-> range,
            result |-> isWithinRange(date, range), n |-> lastEvent.n + 1])

call_isDateDisabled(date, minDate, maxDate, disabledDates) ==
  returned([op |-> "isDateDisabled", date |-> date, minDate |-> minDate,
            maxDate |-> maxDate, disabledDates |-> disabledDates,
            result |-> isDateDisabled(date, minDate, maxDate, disabledDates),
            n |-> lastEvent.n + 1])

call_getWeekdayNames(partial) ==
  returned([op |-> "getWeekdayNames", locale |-> partial,
            result |-> getWeekdayNames(partial), n |-> lastEvent.n + 1])

call_isDisabled(date) ==
  returned([op |-> "isDisabled", date |-> date,
            result |-> isDisabled(date), n |-> lastEvent.n + 1])

DateNext ==
  \/ \E date \in DateInputs, amount \in Amounts : call_addDays(date, amount)
  \/ \E date \in DateInputs, amount \in Amounts : call_addMonths(date, amount)
  \/ \E year \in FreshArgs(YearArgs), month \in 1..12 :
       call_getDaysInMonth(year, month)
  \/ \E date \in DateInputs : call_toISOString(date)
  \/ \E str \in StringInputs : call_fromISOString(str)
  \/ \E date \in FreshArgs(CompareArgs), range \in RangeArgs :
       call_isWithinRange(date, range)
  \/ \E date \in FreshArgs(CompareArgs), minDate \in BoundArgs,
        maxDate \in BoundArgs, disabledDates \in ListArgs :
       call_isDateDisabled(date, minDate, maxDate, disabledDates)
  \/ \E date \in FreshArgs(CompareArgs) : call_isDisabled(date)
  \/ \E partial \in FreshArgs(LocaleArgs) : call_getWeekdayNames(partial)

DateSpec == DateInit /\ [][DateNext]_vars

\* ------------------------------------------------- the bounded picker
\* A single-date picker with CalendarHeader, mounted with minDate <= maxDate
\* on a day between them: the header buttons are clicked while they are
\* enabled, and keys are pressed on the Day cells.

\* minDate, maxDate: a range over two months with a listed date, one over
\* four months, one within a month, and one across the end of a year
HeaderBounds ==
  { [minDate |-> createDate(2024, 2, 10), maxDate |-> createDate(2024, 3, 5),
     disabledDates |-> List(<< createDate(2024, 3, 1) >>)],
    [minDate |-> createDate(2024, 1, 15), maxDate |-> createDate(2024, 4, 20),
     disabledDates |-> List(<< >>)],
    [minDate |-> createDate(2024, 2, 1), maxDate |-> createDate(2024, 2, 29),
     disabledDates |-> List(<< >>)],
    [minDate |-> createDate(2025, 12, 31), maxDate |-> createDate(2026, 1, 1),
     disabledDates |-> List(<< >>)] }

HeaderPropsSet ==
  { [NavBase EXCEPT !.minDate = b.minDate, !.maxDate = b.maxDate,
                    !.disabledDates = b.disabledDates] : b \in HeaderBounds }

\* today() at mount: minDate, maxDate, or the day after minDate
HeaderTodays(p) == { p.minDate, p.maxDate, addDays(p.minDate, 1) }

HeaderInit ==
  /\ props \in HeaderPropsSet
  /\ internalSelectedDate = Coalesce(props.defaultValue, Null)
  /\ internalRange = Coalesce(props.defaultRangeValue, EmptyRange)
  /\ \E t \in HeaderTodays(props) :
       /\ currentMonth = initialDateOf(props, t)
       /\ focusedDate = initialDateOf(props, t)
  /\ leftMonth = Null
  /\ rightProvider = Null
  /\ closure = Rendered(props, internalSelectedDate, internalRange)
  /\ onChangeCalls = NoCalls
  /\ onRangeChangeCalls = NoCalls
  /\ lastEvent = [op |-> "mount", date |-> Null, n |-> 0]

\* CalendarHeader: <button onClick={goToPreviousMonth}
\* disabled={!canGoToPrevious}> and the same for the next month; a disabled
\* button is not clicked
CalendarHeader_previous == canGoToPrevious /\ goToPreviousMonth

CalendarHeader_next == canGoToNext /\ goToNextMonth

HeaderNext ==
  \/ CalendarHeader_previous
  \/ CalendarHeader_next
  \/ \E date \in KeyCells, e \in KeyEvents : handleKeyDown(date, e.key, e.shiftKey)

HeaderSpec == HeaderInit /\ [][HeaderNext]_vars

\* ------------------------------------------------------ the rendered view
\* A picker mounted with a weekStartsOn prop, a locale prop, or both, in the
\* single-month or the two-month view; its months are paged, the cells at
\* the ends of its grids are clicked, and a component calls
\* useCalendarContext below the provider or outside one.

\* the state part of the provider's contextValue
contextValue ==
  [ currentMonth |-> currentMonth, focusedDate |-> focusedDate,
    selectedDate |-> selectedDate, selectedRange |-> selectedRange,
    isRangeMode |-> isRangeMode, minDate |-> props.minDate,
    maxDate |-> props.maxDate, disabledDates |-> props.disabledDates,
    locale |-> locale ]

\* useContext(CalendarContext): the value of the provider above the
\* component, or the default of createContext(null)
useContext(inside) == IF inside THEN contextValue ELSE Null

\* (variant: the context is returned unchecked)
useCalendarContext_Unchecked(context) ==
  [threw |-> FALSE, value |-> context]

\* useCalendarContext: throws when the context is null
useCalendarContext(context) ==
  IF context = Null
  THEN [threw |-> TRUE,
        message |-> "useCalendarContext must be used within a CalendarProvider"]
  ELSE [threw |-> FALSE, value |-> context]

call_useCalendarContext(inside) ==
  returned([op |-> "useCalendarContext", date |-> Null, inside |-> inside,
            result |-> useCalendarContext(useContext(inside)),
            n |-> lastEvent.n + 1])

\* A consumer of the context calls setCurrentMonth(date): the context value
\* passes the useState setter of currentMonth itself
\* (variant: the focused date follows the month)
setCurrentMonth_MovesFocus(date) ==
  /\ lastEvent.n < MaxEvents
  /\ currentMonth' = date
  /\ focusedDate' = date
  /\ lastEvent' = [op |-> "setCurrentMonth", date |-> date,
                   n |-> lastEvent.n + 1]
  /\ UNCHANGED << props, internalSelectedDate, internalRange, closure,
                  onChangeCalls, onRangeChangeCalls, leftMonth, rightProvider >>

setCurrentMonth(date) ==
  /\ lastEvent.n < MaxEvents
  /\ currentMonth' = date
  /\ lastEvent' = [op |-> "setCurrentMonth", date |-> date,
                   n |-> lastEvent.n + 1]
  /\ UNCHANGED << props, internalSelectedDate, internalRange, focusedDate,
                  closure, onChangeCalls, onRangeChangeCalls, leftMonth, rightProvider >>

\* the locale props: none, one with only a tag, and ones with a weekStartsOn
ViewLocales ==
  { Undefined, [locale |-> "en-US"], [weekStartsOn |-> 0], [weekStartsOn |-> 1] }

\* DatePicker (single month) and DateRangePicker with numberOfMonths 1 and 2
ViewPropsSet ==
  { p \in { [NavBase EXCEPT !.weekStartsOn = w, !.locale = l,
                            !.numberOfMonths = m,
                            !.onChange = ~r, !.onRangeChange = r] :
               w \in {0, 1, 6}, l \in ViewLocales,
               m \in {1, 2}, r \in BOOLEAN } :
      p.numberOfMonths = 2 => p.onRangeChange }

ViewInit ==
  /\ props \in ViewPropsSet
  /\ internalSelectedDate = Coalesce(props.defaultValue, Null)
  /\ internalRange = Coalesce(props.defaultRangeValue, EmptyRange)
  /\ \E t \in NavTodays :
       /\ currentMonth = initialDateOf(props, t)
       /\ focusedDate = initialDateOf(props, t)
       /\ leftMonth = IF props.numberOfMonths = 2 THEN initialMonthOf(props, t)
                      ELSE Null
  /\ rightProvider = Null
  /\ closure = Rendered(props, internalSelectedDate, internalRange)
  /\ onChangeCalls = NoCalls
  /\ onRangeChangeCalls = NoCalls
  /\ lastEvent = [op |-> "mount", date |-> Null, n |-> 0]

ViewNext ==
  \/ goToPreviousMonth
  \/ goToNextMonth
  \/ DateRangePicker_goToPreviousMonth
  \/ DateRangePicker_goToNextMonth
  \/ \E date \in FocusArgs : setCurrentMonth(date)
  \/ \E date \in ClickCells : click(date)
  \/ \E inside \in BOOLEAN : call_useCalendarContext(inside)

ViewSpec == ViewInit /\ [][ViewNext]_vars

\* ------------------------------------------- the two-month range picker
\* DateRangePicker in its two-month view, in the two forms the repository
\* holds: one CalendarProvider around both grids (DateRangePicker.tsx), and
\* one CalendarProvider around each grid, both given sharedProps (the copy
\* of the component with two providers).  The Day cells of a grid are
\* clicked, and a host that passes value may pass on what onChange gave it.

\* value and defaultValue of the picker: none, the empty range, a range in
\* progress, a complete range; with and without a minDate
RangePickerPropsSet ==
  { [NavBase EXCEPT !.onChange = FALSE, !.onRangeChange = TRUE,
                    !.numberOfMonths = 2, !.rangeValue = v,
                    !.defaultRangeValue = d, !.minDate = m] :
      v \in {Undefined, EmptyRange, Range(createDate(2026, 1, 25), Null)},
      d \in {Undefined, Range(createDate(2026, 1, 25), Null),
             Range(createDate(2026, 1, 10), createDate(2026, 1, 20))},
      m \in {Undefined, createDate(2026, 1, 12)} }

RangePickerTodays == { createDate(2026, 1, 5), createDate(2025, 12, 31) }

\* the state a CalendarProvider mounts with, as far as a click reads or
\* writes it
ProviderMount(p) ==
  [ internalSelectedDate |-> Coalesce(p.defaultValue, Null),
    internalRange |-> Coalesce(p.defaultRangeValue, EmptyRange),
    closure |-> Rendered(p, Coalesce(p.defaultValue, Null),
                         Coalesce(p.defaultRangeValue, EmptyRange)) ]

RangePickerInit ==
  /\ props \in RangePickerPropsSet
  /\ internalSelectedDate = Coalesce(props.defaultValue, Null)
  /\ internalRange = Coalesce(props.defaultRangeValue, EmptyRange)
  /\ \E t \in RangePickerTodays :
       /\ currentMonth = initialDateOf(props, t)
       /\ focusedDate = initialDateOf(props, t)
       /\ leftMonth = initialMonthOf(props, t)
  /\ rightProvider \in {Null, ProviderMount(props)}
  /\ closure = Rendered(props, internalSelectedDate, internalRange)
  /\ onChangeCalls = NoCalls
  /\ onRangeChangeCalls = NoCalls
  /\ lastEvent = [op |-> "mount", date |-> Null, n |-> 0]

\* the month a grid shows
monthOfGrid(grid) == IF grid = "left" THEN leftMonth ELSE rightMonth

\* The Day cells of a grid that are clicked: its first cell and two cells
\* of its third and fourth rows
DayCells(grid) ==
  UNION { {cells[1], cells[15], cells[28]} :
          cells \in {generateCalendarDays(monthOfGrid(grid), props.weekStartsOn)} }

\* selectDate of the provider around the right grid, and the render that
\* follows it
rightSelectDateCall(date) ==
  /\ UNCHANGED << props, internalSelectedDate, internalRange, currentMonth,
                  focusedDate, closure, leftMonth >>
  /\ IF isDisabled(date)
     THEN UNCHANGED << rightProvider, onChangeCalls, onRangeChangeCalls >>
     ELSE IF isRangeMode
     THEN LET newRange == newRangeOf(rightProvider.closure.selectedRange, date)
              ir == internalRangeAfter(props, rightProvider.internalRange,
                                       newRange)
          IN
          /\ props.onRangeChange => onRangeChangeCalls.count < MaxCalls
          /\ rightProvider' =
               [rightProvider EXCEPT
                  !.internalRange = ir,
                  !.closure = selectDateDeps(@,
                                Rendered(props,
                                         rightProvider.internalSelectedDate, ir))]
          /\ onRangeChangeCalls' =
               callsAfter(props.onRangeChange, onRangeChangeCalls, newRange)
          /\ UNCHANGED onChangeCalls
     ELSE LET newValue == newValueOf(rightProvider.closure.selectedDate, date)
              isd == internalSelectedDateAfter(props,
                       rightProvider.internalSelectedDate, newValue)
          IN
          /\ props.onChange => onChangeCalls.count < MaxCalls
          /\ rightProvider' =
               [rightProvider EXCEPT
                  !.internalSelectedDate = isd,
                  !.closure = selectDateDeps(@,
                                Rendered(props, isd,
                                         rightProvider.internalRange))]
          /\ onChangeCalls' = callsAfter(props.onChange, onChangeCalls, newValue)
          /\ UNCHANGED onRangeChangeCalls

\* a click on the Day cell of `date` in a grid: Day.handleClick with the
\* selectDate of the provider above the cell
clickDay(grid, date) ==
  /\ lastEvent.n < MaxEvents
  /\ lastEvent' = [op |-> "click", date |-> date, grid |-> grid,
                   n |-> lastEvent.n + 1]
  /\ IF grid = "right" /\ rightProvider # Null
     THEN rightSelectDateCall(date)
     ELSE handleClick(date)

\* The host passes the range onChange gave it as the next value
\* (value={range} onChange={setRange}); every provider renders again
hostRerender ==
  /\ isRangeControlled
  /\ onRangeChangeCalls.last # Undefined
  /\ onRangeChangeCalls.last # props.rangeValue
  /\ props' = [props EXCEPT !.rangeValue = onRangeChangeCalls.last]
  /\ closure' = selectDateDeps(closure,
                  Rendered(props', internalSelectedDate, internalRange))
  /\ rightProvider' =
       IF rightProvider = Null THEN Null
       ELSE [rightProvider EXCEPT
               !.closure = selectDateDeps(@,
                             Rendered(props', rightProvider.internalSelectedDate,
                                      rightProvider.internalRange))]
  /\ lastEvent' = [op |-> "rerender", date |-> Null, n |-> lastEvent.n]
  /\ UNCHANGED << internalSelectedDate, internalRange, currentMonth,
                  focusedDate, onChangeCalls, onRangeChangeCalls, leftMonth >>

RangePickerNext ==
  \/ \E grid \in {"left", "right"} : \E date \in DayCells(grid) :
       clickDay(grid, date)
  \/ hostRerender
  \/ DateRangePicker_goToPreviousMonth
  \/ DateRangePicker_goToNextMonth

RangePickerSpec == RangePickerInit /\ [][RangePickerNext]_vars

\* ------------------------------------------------ vocabulary of the claims
\* The order on dates: lexicographic on (year, month, day)
Before(a, b) ==
  \/ a.year < b.year
  \/ a.year = b.year /\ a.month < b.month
  \/ a.year = b.year /\ a.month = b.month /\ a.day < b.day

\* strictly before minDate, strictly after maxDate, or an entry of disabledDates
DisabledByConstraints(d) ==
  \/ props.minDate # Undefined /\ Before(d, props.minDate)
  \/ props.maxDate # Undefined /\ Before(props.maxDate, d)
  \/ \E i \in 1..Len(props.disabledDates.items) : props.disabledDates.items[i] = d

\* a range-shaped input (value, default or handler) was supplied
RangeInputSupplied ==
  \/ props.rangeValue # Undefined
  \/ props.defaultRangeValue # Undefined
  \/ props.onRangeChange

\* The step is a call selectDate(Clicked)
SelectStep == lastEvent'.op = "selectDate"

Clicked == lastEvent'.date

AcceptedSelectStep == SelectStep /\ ~DisabledByConstraints(Clicked)

\* the range {start, end} over two dates, in order
Ordered(a, b) == IF Before(b, a) THEN Range(b, a) ELSE Range(a, b)

IsComplete(r) == r.start # Null /\ r.end # Null

\* --------------------------------------------------------------------- C1
\* C1: selectDate(d) with d disabled (before minDate, after maxDate or listed
\* in disabledDates) changes nothing, in single and in range mode: the
\* selection (internal and exposed), currentMonth and focusedDate keep their
\* values and neither onChange nor onRangeChange is called.
C1_DisabledSelectIsNoOp ==
  [][ (SelectStep /\ DisabledByConstraints(Clicked)) =>
        /\ UNCHANGED << props, internalSelectedDate, internalRange, currentMonth,
                        focusedDate, closure, onChangeCalls, onRangeChangeCalls >>
        /\ selectedDate' = selectedDate
        /\ selectedRange' = selectedRange ]_vars

\* a listed date was clicked on an uncontrolled single-mode picker with a
\* handler and a selection, and a date after maxDate on a range picker
C1_Witness ==
  /\ lastEvent.op = "selectDate"
  /\ props.disabledDates.items = << D(3) >>
  /\ lastEvent.date = D(3)
  /\ ~RangeInputSupplied
  /\ props.value = Undefined
  /\ props.onChange
  /\ selectedDate = D(4)

\* --------------------------------------------------------------------- C2
\* C2: single mode, d enabled: selectDate(d) yields null when the current
\* selection is d and yields d when it is null or another date; the value is
\* stored when uncontrolled and passed to onChange when a handler is given.
\* Uncontrolled, selectDate(d) twice from selection d goes d -> null -> d.
C2_SingleToggle ==
  [][ (AcceptedSelectStep /\ ~RangeInputSupplied) =>
        LET d  == Clicked
            nv == IF selectedDate = d THEN Null ELSE d
        IN  /\ props.value = Undefined =>
                 /\ internalSelectedDate' = nv
                 /\ selectedDate' = nv
            /\ props.onChange => onChangeCalls'.last = nv
            /\ (props.value = Undefined /\ lastEvent = [op |-> "selectDate", date |-> d]
                  /\ selectedDate = Null) => selectedDate' = d ]_vars

\* uncontrolled, default D(4): selectDate(D(4)) twice, back on D(4)
C2_Witness ==
  /\ ~RangeInputSupplied
  /\ props.value = Undefined
  /\ props.defaultValue = D(4)
  /\ props.onChange
  /\ lastEvent = [op |-> "selectDate", date |-> D(4)]
  /\ onChangeCalls = [count |-> 2, last |-> D(4)]
  /\ selectedDate = D(4)

\* --------------------------------------------------------------------- C3
\* C3: range mode, d enabled: when the current range has no start, or has
\* both start and end, selectDate(d) yields {start: d, end: null}.
C3_RangeStart ==
  [][ (AcceptedSelectStep /\ RangeInputSupplied
         /\ (selectedRange.start = Null \/ IsComplete(selectedRange))) =>
        LET nr == Range(Clicked, Null)
        IN  /\ props.rangeValue = Undefined =>
                 /\ internalRange' = nr
                 /\ selectedRange' = nr
            /\ props.onRangeChange => onRangeChangeCalls'.last = nr ]_vars

\* the complete default range D(2)..D(4) was replaced by one click on D(1)
C3_Witness ==
  /\ props.rangeValue = Undefined
  /\ props.defaultRangeValue = Range(D(2), D(4))
  /\ props.onRangeChange
  /\ lastEvent = [op |-> "selectDate", date |-> D(1)]
  /\ onRangeChangeCalls = [count |-> 1, last |-> Range(D(1), Null)]
  /\ selectedRange = Range(D(1), Null)

\* --------------------------------------------------------------------- C4
\* C4: range mode, current range {start: A, end: null}, B enabled:
\* selectDate(B) yields {start: B, end: A} if B < A and {start: A, end: B}
\* if B >= A; selectDate(A) yields {start: A, end: A}.
C4_RangeComplete ==
  [][ (AcceptedSelectStep /\ RangeInputSupplied
         /\ selectedRange.start # Null /\ selectedRange.end = Null) =>
        LET A  == selectedRange.start
            B  == Clicked
            nr == IF Before(B, A) THEN Range(B, A) ELSE Range(A, B)
        IN  /\ props.rangeValue = Undefined =>
                 /\ internalRange' = nr
                 /\ selectedRange' = nr
            /\ props.onRangeChange => onRangeChangeCalls'.last = nr
            /\ B = A => nr = Range(A, A) ]_vars

\* the range in progress from D(4) was completed by a click on the earlier
\* D(2): the endpoints are swapped
C4_Witness ==
  /\ props.rangeValue = Undefined
  /\ props.defaultRangeValue = Range(D(4), Null)
  /\ props.onRangeChange
  /\ lastEvent = [op |-> "selectDate", date |-> D(2)]
  /\ onRangeChangeCalls = [count |-> 1, last |-> Range(D(2), D(4))]
  /\ selectedRange = Range(D(2), D(4))

\* --------------------------------------------------------------------- C5
\* C5: uncontrolled range mode whose initial range is empty or has
\* start <= end: every reachable range with both ends present has
\* start <= end.
C5_RangeOrdered ==
  (/\ RangeInputSupplied
   /\ props.rangeValue = Undefined
   /\ \/ props.defaultRangeValue = Undefined
      \/ ~IsComplete(props.defaultRangeValue)
      \/ ~Before(props.defaultRangeValue.end, props.defaultRangeValue.start))
  => (IsComplete(internalRange) => ~Before(internalRange.end, internalRange.start))

\* two clicks, the later date first, ended in an ordered range
C5_Witness ==
  /\ props.rangeValue = Undefined
  /\ props.defaultRangeValue = Undefined
  /\ props.onRangeChange
  /\ lastEvent = [op |-> "selectDate", date |-> D(1)]
  /\ onRangeChangeCalls = [count |-> 2, last |-> Range(D(1), D(5))]
  /\ internalRange = Range(D(1), D(5))

\* --------------------------------------------------------------------- C6
\* C6: a controlled value (value !== undefined, null included; rangeValue
\* !== undefined) is never changed by the controller: the exposed selection
\* is the latest value the caller passed, and the internal copy keeps the
\* value it was mounted with.
C6_ControlledNeverWritten ==
  /\ props.value # Undefined =>
       /\ selectedDate = props.value
       /\ closure.selectedDate = props.value
       /\ internalSelectedDate = Coalesce(props.defaultValue, Null)
  /\ props.rangeValue # Undefined =>
       /\ selectedRange = props.rangeValue
       /\ closure.selectedRange = props.rangeValue
       /\ internalRange = Coalesce(props.defaultRangeValue, EmptyRange)

\* controlled single mode with value null and default D(4): selectDate(D(4))
\* was notified, the exposed selection is still null and the internal copy
\* still the default
C6_Witness ==
  /\ ~RangeInputSupplied
  /\ props.value = Null
  /\ props.defaultValue = D(4)
  /\ lastEvent = [op |-> "selectDate", date |-> D(4)]
  /\ onChangeCalls = [count |-> 1, last |-> D(4)]
  /\ selectedDate = Null
  /\ internalSelectedDate = D(4)

\* --------------------------------------------------------------------- C7
\* The value selectDate computes from the exposed selection
ComputedValue(sel, d) == IF sel = d THEN Null ELSE d

ComputedRange(r, d) ==
  IF r.start = Null \/ IsComplete(r) THEN Range(d, Null) ELSE Ordered(r.start, d)

TotalCalls == onChangeCalls.count + onRangeChangeCalls.count

\* C7 as stated: every selectDate call on an enabled date makes exactly one
\* change notification, controlled or not.
C7_AlwaysOneNotification ==
  [][ AcceptedSelectStep => TotalCalls' = TotalCalls + 1 ]_vars

\* C7 as amended: every selectDate call on an enabled date calls the mode's
\* change handler (onChange in single mode, onRangeChange in range mode)
\* exactly once with the newly computed value when that handler was
\* supplied, controlled or not, and makes no call when it was not; in
\* uncontrolled mode with a handler the selection exposed after the call is
\* the value notified.
C7_OneNotificationPerHandler ==
  [][ AcceptedSelectStep =>
        IF RangeInputSupplied
        THEN /\ onChangeCalls' = onChangeCalls
             /\ IF props.onRangeChange
                THEN /\ onRangeChangeCalls' =
                          [count |-> onRangeChangeCalls.count + 1,
                           last  |-> ComputedRange(selectedRange, Clicked)]
                     /\ props.rangeValue = Undefined =>
                          selectedRange' = onRangeChangeCalls'.last
                ELSE onRangeChangeCalls' = onRangeChangeCalls
        ELSE /\ onRangeChangeCalls' = onRangeChangeCalls
             /\ IF props.onChange
                THEN /\ onChangeCalls' =
                          [count |-> onChangeCalls.count + 1,
                           last  |-> ComputedValue(selectedDate, Clicked)]
                     /\ props.value = Undefined =>
                          selectedDate' = onChangeCalls'.last
                ELSE onChangeCalls' = onChangeCalls ]_vars

\* a controlled range picker notified the completed range and still shows
\* the range in progress the caller passed
C7_Witness ==
  /\ props.rangeValue = Range(D(2), Null)
  /\ props.onRangeChange
  /\ lastEvent = [op |-> "selectDate", date |-> D(4)]
  /\ onRangeChangeCalls = [count |-> 1, last |-> Range(D(2), D(4))]
  /\ selectedRange = Range(D(2), Null)

\* --------------------------------------------------------------------- C8
\* C8: on an uncontrolled controller each accepted selectDate call computes
\* its result from the selection the previous call left (not from an older
\* one): a click on A that starts a range followed by a click on B ends in
\* the complete range over A and B; and a call changes at most one of the two
\* selections and makes at most one notification.
C8_EventsSeeFreshState ==
  [][ AcceptedSelectStep =>
        /\ (RangeInputSupplied /\ props.rangeValue = Undefined) =>
             /\ internalRange' = ComputedRange(internalRange, Clicked)
             /\ (lastEvent.op = "selectDate"
                   /\ internalRange = Range(lastEvent.date, Null)) =>
                  internalRange' = Ordered(lastEvent.date, Clicked)
        /\ (~RangeInputSupplied /\ props.value = Undefined) =>
             internalSelectedDate' = ComputedValue(internalSelectedDate, Clicked)
        /\ internalSelectedDate' = internalSelectedDate
             \/ internalRange' = internalRange
        /\ TotalCalls' <= TotalCalls + 1 ]_vars

\* from the empty range, clicks on D(4) then D(2) ended in D(2)..D(4)
C8_Witness ==
  /\ props.rangeValue = Undefined
  /\ props.defaultRangeValue = Undefined
  /\ props.onRangeChange
  /\ lastEvent = [op |-> "selectDate", date |-> D(2)]
  /\ onRangeChangeCalls = [count |-> 2, last |-> Range(D(2), D(4))]
  /\ internalRange = Range(D(2), D(4))

\* --------------------------------------------------------------------- C9
\* the start of the range the caller supplied: rangeValue's, else
\* defaultRangeValue's
SuppliedRangeStart ==
  Coalesce(IF props.rangeValue # Undefined THEN props.rangeValue.start ELSE Undefined,
           IF props.defaultRangeValue # Undefined
           THEN props.defaultRangeValue.start ELSE Undefined)

\* C9: at mount currentMonth and focusedDate are both seeded from the first
\* present of value, defaultValue, the supplied range's start, today; so a
\* range-mode controller given a range with a start opens on that start's
\* month.  (Stated for the month only: the seed's day is not compared.)
C9_SeedPriority ==
  lastEvent.op = "mount" =>
    LET seeds ==
          IF ~isNullish(props.value) THEN {props.value}
          ELSE IF ~isNullish(props.defaultValue) THEN {props.defaultValue}
          ELSE IF ~isNullish(SuppliedRangeStart) THEN {SuppliedRangeStart}
          ELSE Todays
    IN  \E seed \in seeds :
          isSameMonth(currentMonth, seed) /\ isSameMonth(focusedDate, seed)

\* -------------------------------------------------------------------- C10
\* C10: isRangeMode is true iff rangeValue, defaultRangeValue or
\* onRangeChange is supplied; in range mode selectDate never changes
\* selectedDate and never calls onChange, in single mode it never changes
\* selectedRange and never calls onRangeChange.
C10_ModesExclusive ==
  [][ /\ isRangeMode <=> RangeInputSupplied
      /\ (SelectStep /\ RangeInputSupplied) =>
           /\ selectedDate' = selectedDate
           /\ internalSelectedDate' = internalSelectedDate
           /\ onChangeCalls' = onChangeCalls
      /\ (SelectStep /\ ~RangeInputSupplied) =>
           /\ selectedRange' = selectedRange
           /\ internalRange' = internalRange
           /\ onRangeChangeCalls' = onRangeChangeCalls ]_vars

\* range mode by the handler alone, with a default single value and an
\* onChange handler: a click started a range and left the single selection
\* alone
C10_Witness ==
  /\ props.rangeValue = Undefined
  /\ props.defaultRangeValue = Undefined
  /\ props.onRangeChange
  /\ props.value = Undefined
  /\ props.defaultValue = D(4)
  /\ props.onChange
  /\ lastEvent = [op |-> "selectDate", date |-> D(4)]
  /\ onRangeChangeCalls = [count |-> 1, last |-> Range(D(4), Null)]
  /\ onChangeCalls = NoCalls
  /\ selectedDate = D(4)

\* ------------------------------------- vocabulary of the calendar claims
\* The Gregorian calendar, stated without the program's date functions
IsLeapYear(y) == y % 4 = 0 /\ (y % 100 # 0 \/ y % 400 = 0)

MonthLength(y, m) ==
  IF m = 2 THEN (IF IsLeapYear(y) THEN 29 ELSE 28)
  ELSE IF m \in {4, 6, 9, 11} THEN 30 ELSE 31

ValidDate(d) ==
  d.month \in 1..12 /\ d.day \in 1..MonthLength(d.year, d.month)

\* the number of the month, counted from month 1 of year 0
MonthNumber(d) == d.year * 12 + d.month - 1

\* the Julian day number of a date
DayNumber(d) ==
  LET a  == (14 - d.month) \div 12
      yy == d.year + 4800 - a
      mm == d.month + 12 * a - 3
  IN  d.day + (153 * mm + 2) \div 5 + 365 * yy + yy \div 4 - yy \div 100
        + yy \div 400 - 32045

\* 0 for Sunday .. 6 for Saturday (Julian day 0 was a Monday)
Weekday(d) == (DayNumber(d) + 1) % 7

SameMonth(a, b) == a.year = b.year /\ a.month = b.month

\* The step is the event named
StepOf(op) == lastEvent'.op = op

\* The number of Day cells on screen with tabIndex 0
TabbableCells ==
  Cardinality(UNION { { i \in 1..Len(cells) : tabIndexOf(cells[i]) = 0 } :
                      cells \in {RenderedCells} })

C12_FocusMovesMonth ==
  lastEvent.op = "setFocusedDate" =>
    /\ focusedDate = lastEvent.arg
    /\ SameMonth(focusedDate, currentMonth)

\* -------------------------------------------------------------------- C13
\* C13: roving focus: in every reachable state of a picker exactly one Day
\* cell on screen has tabIndex 0.
C13_ExactlyOneTabbable == TabbableCells = 1

\* -------------------------------------------------------------------- C14
\* The step is a key event; its key, its shift flag, the date of the cell it
\* arrived at and the target it handed to the clamp
KeyStep == StepOf("keyDown")

Key == lastEvent'.key

Shift == lastEvent'.shiftKey

Cell == lastEvent'.date

Target == lastEvent'.target

Unconstrained == props.minDate = Undefined /\ props.maxDate = Undefined

\* C14: a key event on date d takes as focus target, before clamping,
\* addDays(d, -1) for ArrowLeft, addDays(d, 1) for ArrowRight, addDays(d, -7)
\* for ArrowUp, addDays(d, 7) for ArrowDown, day 1 of d's month for Home and
\* the last day of d's month for End; the target is the calendar date that
\* many days away, across month and year ends; with no minDate / maxDate it
\* becomes focusedDate.
C14_DayMoves ==
  [][ (KeyStep /\ Key \in {"ArrowLeft", "ArrowRight", "ArrowUp", "ArrowDown",
                           "Home", "End"}) =>
        LET d == Cell
            t == Target
        IN  /\ ValidDate(t)
            /\ Key = "ArrowLeft" =>
                 t = addDays(d, -1) /\ DayNumber(t) = DayNumber(d) - 1
            /\ Key = "ArrowRight" =>
                 t = addDays(d, 1) /\ DayNumber(t) = DayNumber(d) + 1
            /\ Key = "ArrowUp" =>
                 t = addDays(d, -7) /\ DayNumber(t) = DayNumber(d) - 7
            /\ Key = "ArrowDown" =>
                 t = addDays(d, 7) /\ DayNumber(t) = DayNumber(d) + 7
            /\ Key = "Home" => t = [d EXCEPT !.day = 1]
            /\ Key = "End" => t = [d EXCEPT !.day = MonthLength(d.year, d.month)]
            /\ Unconstrained => focusedDate' = t ]_vars

\* ArrowRight on 2025-12-31 moved the focus, and the page, to 2026-01-01
C14_Witness ==
  /\ lastEvent.op = "keyDown"
  /\ lastEvent.key = "ArrowRight"
  /\ lastEvent.date = createDate(2025, 12, 31)
  /\ focusedDate = createDate(2026, 1, 1)
  /\ currentMonth = createDate(2026, 1, 1)

\* -------------------------------------------------------------------- C15
\* C15: PageUp / PageDown on date d take as target the previous / next
\* month, and with shift the previous / next year, with the other of year
\* and month kept and day = min(d's day, days in the target month); the
\* target is a valid calendar date (shift+PageUp on 2024-02-29 gives
\* 2023-02-28, PageDown on January 31 gives February 28 or 29).
C15_Paging ==
  [][ (KeyStep /\ Key \in {"PageUp", "PageDown"}) =>
        LET d     == Cell
            t     == Target
            delta == IF Key = "PageUp" THEN -1 ELSE 1
            ty    == IF Shift THEN d.year + delta
                     ELSE (MonthNumber(d) + delta) \div 12
            tm    == IF Shift THEN d.month
                     ELSE ((MonthNumber(d) + delta) % 12) + 1
            len   == MonthLength(ty, tm)
        IN  /\ t = createDate(ty, tm, IF d.day < len THEN d.day ELSE len)
            /\ ValidDate(t)
            /\ (d = createDate(2024, 2, 29) /\ Key = "PageUp" /\ Shift) =>
                 t = createDate(2023, 2, 28)
            /\ (d.month = 1 /\ d.day = 31 /\ Key = "PageDown" /\ ~Shift) =>
                 t = createDate(d.year, 2, IF IsLeapYear(d.year) THEN 29 ELSE 28)
            /\ Unconstrained => focusedDate' = t ]_vars

\* PageDown on 2024-01-31 went to 2024-02-29, and shift+PageUp on that cell
\* to 2023-02-28
C15_Witness ==
  /\ lastEvent.op = "keyDown"
  /\ lastEvent.n = 2
  /\ lastEvent.key = "PageUp"
  /\ lastEvent.shiftKey
  /\ lastEvent.date = createDate(2024, 2, 29)
  /\ focusedDate = createDate(2023, 2, 28)
  /\ currentMonth = createDate(2023, 2, 28)
  /\ props.numberOfMonths = 1

\* -------------------------------------------------------------------- C16
\* C16: the focus target of a focus-moving key is replaced by minDate when
\* it is before minDate, else by maxDate when it is after maxDate; so with
\* minDate <= maxDate the focusedDate a key sets is within
\* minDate .. maxDate.
C16_Clamp ==
  [][ (KeyStep /\ Key \in MoveKeys) =>
        LET t == Target IN
        /\ focusedDate' =
             IF props.minDate # Undefined /\ Before(t, props.minDate)
             THEN props.minDate
             ELSE IF props.maxDate # Undefined /\ Before(props.maxDate, t)
                  THEN props.maxDate
                  ELSE t
        /\ (props.minDate # Undefined /\ props.maxDate # Undefined
              /\ ~Before(props.maxDate, props.minDate)) =>
             /\ ~Before(focusedDate', props.minDate)
             /\ ~Before(props.maxDate, focusedDate') ]_vars

\* minDate 2024-02-10, maxDate 2024-03-05: ArrowDown on 2024-02-29 aimed at
\* 2024-03-07 and focused maxDate
C16_Witness ==
  /\ props.minDate = createDate(2024, 2, 10)
  /\ props.maxDate = createDate(2024, 3, 5)
  /\ lastEvent.op = "keyDown"
  /\ lastEvent.key = "ArrowDown"
  /\ lastEvent.date = createDate(2024, 2, 29)
  /\ lastEvent.target = createDate(2024, 3, 7)
  /\ focusedDate = createDate(2024, 3, 5)

\* -------------------------------------------------------------------- C17
\* C17: after a focus-moving key event the new focusedDate lies in a month
\* on display: currentMonth in the single-month view, leftMonth or
\* rightMonth in the two-month range picker.
C17_DisplayFollowsFocus ==
  (lastEvent.op = "keyDown" /\ lastEvent.key \in MoveKeys) =>
    IF leftMonth = Null
    THEN SameMonth(focusedDate, currentMonth)
    ELSE SameMonth(focusedDate, leftMonth) \/ SameMonth(focusedDate, rightMonth)

\* -------------------------------------------------------------------- C18
\* C18: Enter and Space on a day do what selectDate does for that day
\* (nothing if it is disabled) and leave focusedDate and currentMonth as
\* they are; a key that is not an arrow, Home, End, PageUp, PageDown, Enter
\* or Space changes no state and makes no notification.
C18_SelectKeys ==
  [][ KeyStep =>
        /\ Key \in {"Enter", " "} =>
             /\ UNCHANGED << props, focusedDate, currentMonth, leftMonth >>
             /\ IF DisabledByConstraints(Cell)
                THEN UNCHANGED << internalSelectedDate, internalRange,
                                  onChangeCalls, onRangeChangeCalls >>
                ELSE IF RangeInputSupplied
                THEN /\ UNCHANGED << internalSelectedDate, onChangeCalls >>
                     /\ props.rangeValue = Undefined =>
                          internalRange' = ComputedRange(selectedRange, Cell)
                     /\ onRangeChangeCalls' =
                          IF props.onRangeChange
                          THEN [count |-> onRangeChangeCalls.count + 1,
                                last  |-> ComputedRange(selectedRange, Cell)]
                          ELSE onRangeChangeCalls
                ELSE /\ UNCHANGED << internalRange, onRangeChangeCalls >>
                     /\ props.value = Undefined =>
                          internalSelectedDate' = ComputedValue(selectedDate, Cell)
                     /\ onChangeCalls' =
                          IF props.onChange
                          THEN [count |-> onChangeCalls.count + 1,
                                last  |-> ComputedValue(selectedDate, Cell)]
                          ELSE onChangeCalls
        /\ Key \notin {"ArrowLeft", "ArrowRight", "ArrowUp", "ArrowDown", "Home",
                       "End", "PageUp", "PageDown", "Enter", " "} =>
             UNCHANGED << props, internalSelectedDate, internalRange,
                          currentMonth, focusedDate, closure, onChangeCalls,
                          onRangeChangeCalls, leftMonth >> ]_vars

\* ArrowRight to 2024-02-01, then Space on that cell: it is selected and
\* notified, focus and page stay
C18_Witness ==
  /\ lastEvent.op = "keyDown"
  /\ lastEvent.n = 2
  /\ lastEvent.key = " "
  /\ lastEvent.date = createDate(2024, 2, 1)
  /\ focusedDate = createDate(2024, 2, 1)
  /\ currentMonth = createDate(2024, 2, 1)
  /\ internalSelectedDate = createDate(2024, 2, 1)
  /\ onChangeCalls = [count |-> 1, last |-> createDate(2024, 2, 1)]

\* -------------------------------------------------------------------- C19
\* C19: generateCalendarDays returns exactly 42 dates for every anchor month
\* (of 28, 29, 30 and 31 days, of any year) and every weekStartsOn in 0..6:
\* calendarDays has length 42 in every state of the controller.
C19_GridHas42 ==
  \A cells \in {calendarDays} :
    /\ Len(cells) = 42
    /\ DOMAIN cells = 1..42

\* paged from January to February 2026, a 28-day month that starts on the
\* week's first day: no leading cell, and 42 cells
C19_Witness ==
  /\ lastEvent.op = "goToNextMonth"
  /\ currentMonth = createDate(2026, 2, 1)
  /\ props.weekStartsOn = 0
  /\ \E cells \in {calendarDays} :
       /\ cells[1] = createDate(2026, 2, 1)
       /\ Len(cells) = 42

\* -------------------------------------------------------------------- C20
\* C20: for every anchor month and weekStartsOn, the first cell of the grid
\* falls on weekday weekStartsOn, the 42 cells are consecutive calendar days
\* (cell k+1 = addDays(cell k, 1)), every day of the anchor month appears
\* exactly once, and every cell belongs to the previous, the anchor or the
\* next month (anchor 2026-01, weekStartsOn 0: first cell 2025-12-28, last
\* cell 2026-02-07).
GridStructure(cells, anchor, weekStartsOn) ==
  /\ Weekday(cells[1]) = weekStartsOn
  /\ \A k \in 1..(Len(cells) - 1) :
       /\ cells[k + 1] = addDays(cells[k], 1)
       /\ DayNumber(cells[k + 1]) = DayNumber(cells[k]) + 1
  /\ \A day \in 1..MonthLength(anchor.year, anchor.month) :
       Cardinality({ k \in 1..Len(cells) :
                       cells[k] = createDate(anchor.year, anchor.month, day) }) = 1
  /\ \A k \in 1..Len(cells) :
       MonthNumber(cells[k]) - MonthNumber(anchor) \in {-1, 0, 1}
  /\ (SameMonth(anchor, createDate(2026, 1, 1)) /\ weekStartsOn = 0) =>
       /\ cells[1] = createDate(2025, 12, 28)
       /\ cells[Len(cells)] = createDate(2026, 2, 7)

C20_GridStructure ==
  \A cells \in {calendarDays} :
    GridStructure(cells, currentMonth, props.weekStartsOn)

\* The same for the anchors outside the years 0..99 and their neighbours
GridStructureFromYear100 ==
  currentMonth.year >= 101 => C20_GridStructure

\* -------------------------------------------------------------------- C21
\* The number of cells before day 1 of the anchor month
LeadCount(cells, anchor) ==
  Cardinality({ k \in 1..Len(cells) :
                  \A j \in 1..k : ~SameMonth(cells[j], anchor) })

\* The number of cells after the last day of the anchor month
TrailCount(cells, anchor) ==
  Cardinality({ k \in 1..Len(cells) :
                  \A j \in k..Len(cells) : ~SameMonth(cells[j], anchor) })

\* The padding of a grid: the lead is (firstWeekday - weekStartsOn + 7) mod 7
\* cells, firstWeekday being the weekday getWeekday gives day 1 of the
\* anchor month; the trail is days 1..N of the month addMonths gives after
\* the anchor month, N = 42 - lead - (days of the anchor month), and N lies
\* in minTrail..maxTrail.
GridPadding(cells, anchor, weekStartsOn, minTrail, maxTrail) ==
  \E lead \in { LeadCount(cells, anchor) }, N \in { TrailCount(cells, anchor) } :
    /\ lead = (getWeekday(startOfMonth(anchor)) - weekStartsOn + 7) % 7
    /\ lead <= 6
    /\ N = Len(cells) - lead - MonthLength(anchor.year, anchor.month)
    /\ \A day \in 1..N :
         cells[Len(cells) - N + day]
           = [addMonths(anchor, 1) EXCEPT !.day = day]
    /\ minTrail <= N
    /\ N <= maxTrail

\* C21 (as stated): in every grid the number of leading previous-month cells
\* is (firstWeekday - weekStartsOn + 7) mod 7 (at most 6), and the trailing
\* next-month cells are days 1..N of the next month with 4 <= N <= 13, for
\* every anchor month and every weekStartsOn.
C21_PaddingBounds ==
  \A cells \in {calendarDays} :
    GridPadding(cells, currentMonth, props.weekStartsOn, 4, 13)

\* C21 (amended): the same with 4 <= N <= 14: a 28-day February that starts
\* on the week's first day has no leading cell and 42 - 28 = 14 trailing
\* cells.
C21_PaddingBounds14 ==
  \A cells \in {calendarDays} :
    GridPadding(cells, currentMonth, props.weekStartsOn, 4, 14)

\* paged from January to February 2026 with weeks starting on Sunday: the
\* grid starts on February 1 and ends on March 14
C21_Witness ==
  /\ lastEvent.op = "goToNextMonth"
  /\ currentMonth = createDate(2026, 2, 1)
  /\ props.weekStartsOn = 0
  /\ \E cells \in {calendarDays} :
       /\ LeadCount(cells, currentMonth) = 0
       /\ TrailCount(cells, currentMonth) = 14
       /\ cells[42] = createDate(2026, 3, 14)

\* ------------------------------- vocabulary of the date-function claims
\* The step is a call of the function named
CallOf(op) == lastEvent'.op = op

\* What the call was given and what it returned
Arg == lastEvent'

Result == lastEvent'.result

\* The call was given what the call before it returned
Chained == lastEvent.op = lastEvent'.op /\ lastEvent'.date = lastEvent.result

\* JavaScript's Date reads a year argument of 0..99 as 1900 + year
TwoDigitYear(y) == y >= 0 /\ y <= 99

\* -------------------------------------------------------------------- C22
\* C22: addDays(d, n) returns the valid calendar date exactly n days after d
\* for every valid date d and integer n of either sign, rolling over month,
\* leap-February and year boundaries in both directions; hence
\* addDays(addDays(d, n), -n) = d and addDays(d, 0) = d.
C22_AddDays ==
  [][ (CallOf("addDays") /\ ValidDate(Arg.date)) =>
        /\ ValidDate(Result)
        /\ DayNumber(Result) = DayNumber(Arg.date) + Arg.amount
        /\ addDays(Result, -Arg.amount) = Arg.date
        /\ (Chained /\ Arg.amount = -lastEvent.amount) => Result = lastEvent.date
        /\ Arg.amount = 0 => Result = Arg.date ]_vars

\* The same for the dates outside the years 0..99 (the round trip for the
\* results outside them)
AddDaysOutsideYears0To99 ==
  [][ (CallOf("addDays") /\ ValidDate(Arg.date)
         /\ ~TwoDigitYear(Arg.date.year)) =>
        /\ ValidDate(Result)
        /\ DayNumber(Result) = DayNumber(Arg.date) + Arg.amount
        /\ ~TwoDigitYear(Result.year) => addDays(Result, -Arg.amount) = Arg.date
        /\ Arg.amount = 0 => Result = Arg.date ]_vars

\* -------------------------------------------------------------------- C23
\* C23: addMonths(d, n) returns day 1 of the month n months after d's month
\* for every input day and every integer n, with month kept in 1..12 and
\* year adjusted; addMonths(addMonths(d, n), -n) has the same year and
\* month as d.
C23_AddMonths ==
  [][ CallOf("addMonths") =>
        /\ Result.day = 1
        /\ Result.month \in 1..12
        /\ MonthNumber(Result) = MonthNumber(Arg.date) + Arg.amount
        /\ SameMonth(addMonths(Result, -Arg.amount), Arg.date)
        /\ (Chained /\ Arg.amount = -lastEvent.amount) =>
             SameMonth(Result, lastEvent.date) ]_vars

\* The same for the dates outside the years 0..99 (the round trip for the
\* results outside them)
AddMonthsOutsideYears0To99 ==
  [][ (CallOf("addMonths") /\ ~TwoDigitYear(Arg.date.year)) =>
        /\ Result.day = 1
        /\ Result.month \in 1..12
        /\ MonthNumber(Result) = MonthNumber(Arg.date) + Arg.amount
        /\ ~TwoDigitYear(Result.year) =>
             SameMonth(addMonths(Result, -Arg.amount), Arg.date) ]_vars

\* -------------------------------------------------------------------- C24
\* C24: getDaysInMonth(year, month) equals the Gregorian month length for
\* every year and month 1..12: 31/30 by month, and February has 29 days iff
\* the year is divisible by 4 and (not divisible by 100 or divisible by
\* 400), else 28.
C24_DaysInMonth ==
  [][ CallOf("getDaysInMonth") =>
        Result = IF Arg.month \in {1, 3, 5, 7, 8, 10, 12} THEN 31
                 ELSE IF Arg.month \in {4, 6, 9, 11} THEN 30
                 ELSE IF Arg.year % 4 = 0
                         /\ (Arg.year % 100 # 0 \/ Arg.year % 400 = 0) THEN 29
                 ELSE 28 ]_vars

\* The same for every year but 0
DaysInMonthButYear0 ==
  [][ (CallOf("getDaysInMonth") /\ Arg.year # 0) =>
        Result = MonthLength(Arg.year, Arg.month) ]_vars

\* -------------------------------------------------------------------- C25
\* The string was written by the toISOString call before this call
IsoRoundTrip ==
  /\ CallOf("fromISOString")
  /\ lastEvent.op = "toISOString"
  /\ Arg.str = lastEvent.result

\* C25 (as stated): for every valid date d, fromISOString(toISOString(d)) is
\* a date equal to d in year, month and day.
C25_IsoRoundTrip ==
  [][ /\ (CallOf("toISOString") /\ ValidDate(Arg.date)) =>
           fromISOString(Result) = Arg.date
      /\ (IsoRoundTrip /\ ValidDate(lastEvent.date)) =>
           Result = lastEvent.date ]_vars

\* C25 (amended): the same for every valid date d of the years 0..9999; the
\* year of any other date is written with a sign or with more than four
\* digits, which fromISOString does not read.
C25_IsoRoundTrip4Digits ==
  [][ /\ (CallOf("toISOString") /\ ValidDate(Arg.date)
             /\ Arg.date.year \in 0..9999) =>
           /\ Len(Result) = 10
           /\ fromISOString(Result) = Arg.date
      /\ (IsoRoundTrip /\ ValidDate(lastEvent.date)
             /\ lastEvent.date.year \in 0..9999) =>
           Result = lastEvent.date ]_vars

\* 0050-03-10 written by toISOString and read back
C25_Witness ==
  /\ lastEvent.op = "fromISOString"
  /\ lastEvent.n = 2
  /\ lastEvent.str = << "0", "0", "5", "0", "-", "0", "3", "-", "1", "0" >>
  /\ lastEvent.result = createDate(50, 3, 10)

\* -------------------------------------------------------------------- C26
\* The characters 0..9 and their values
DecimalValue(c) ==
  CASE c = "0" -> 0 [] c = "1" -> 1 [] c = "2" -> 2 [] c = "3" -> 3
    [] c = "4" -> 4 [] c = "5" -> 5 [] c = "6" -> 6 [] c = "7" -> 7
    [] c = "8" -> 8 [] c = "9" -> 9 [] OTHER -> -1

\* four digits, '-', two digits, '-', two digits, and nothing else
MatchesIsoPattern(str) ==
  /\ Len(str) = 10
  /\ \A i \in {1, 2, 3, 4, 6, 7, 9, 10} : DecimalValue(str[i]) >= 0
  /\ str[5] = "-" /\ str[8] = "-"

\* C26: fromISOString returns null, and never raises, for every string that
\* does not match exactly four digits, '-', two digits, '-', two digits; for
\* every string that does match it returns the date made of the three
\* parsed numbers (whether or not they name a day of the calendar).
C26_FromIso ==
  [][ CallOf("fromISOString") =>
        \A str \in {Arg.str} :
          IF MatchesIsoPattern(str)
          THEN Result =
                 createDate(1000 * DecimalValue(str[1]) + 100 * DecimalValue(str[2])
                              + 10 * DecimalValue(str[3]) + DecimalValue(str[4]),
                            10 * DecimalValue(str[6]) + DecimalValue(str[7]),
                            10 * DecimalValue(str[9]) + DecimalValue(str[10]))
          ELSE Result = Null ]_vars

\* "2026-01-19T" is one character too long: null
C26_Witness ==
  /\ lastEvent.op = "fromISOString"
  /\ lastEvent.str = << "2", "0", "2", "6", "-", "0", "1", "-", "1", "9", "T" >>
  /\ lastEvent.result = Null

\* "2026-13-45" matches and is returned as it was parsed
FromIsoUnvalidated ==
  /\ lastEvent.op = "fromISOString"
  /\ lastEvent.result = createDate(2026, 13, 45)

\* -------------------------------------------------------------------- C27
\* C27: isWithinRange(date, range) is false whenever range.start or
\* range.end is absent, and otherwise is true exactly when
\* start <= date <= end (both endpoints included) under the (year, month,
\* day) lexicographic order.
C27_WithinRange ==
  [][ CallOf("isWithinRange") =>
        Result = IF Arg.range.start = Null \/ Arg.range.end = Null THEN FALSE
                 ELSE /\ ~Before(Arg.date, Arg.range.start)
                      /\ ~Before(Arg.range.end, Arg.date) ]_vars

\* the end of a range that spans a month end is within it
C27_Witness ==
  /\ lastEvent.op = "isWithinRange"
  /\ lastEvent.date = createDate(2024, 3, 5)
  /\ lastEvent.range = Range(createDate(2024, 2, 10), createDate(2024, 3, 5))
  /\ lastEvent.result = TRUE

\* -------------------------------------------------------------------- C28
\* strictly before a given minDate, strictly after a given maxDate, or an
\* entry of disabledDates
Excluded(date, minDate, maxDate, disabledDates) ==
  \/ minDate # Undefined /\ Before(date, minDate)
  \/ maxDate # Undefined /\ Before(maxDate, date)
  \/ /\ disabledDates # Undefined
     /\ \E i \in 1..Len(disabledDates.items) : disabledDates.items[i] = date

\* isDateDisabled is true iff the date is excluded, and the controller's
\* isDisabled is isDateDisabled on its configured constraints
DisabledIffExcluded ==
  /\ CallOf("isDateDisabled") =>
       Result = Excluded(Arg.date, Arg.minDate, Arg.maxDate, Arg.disabledDates)
  /\ CallOf("isDisabled") =>
       Result = Excluded(Arg.date, props.minDate, props.maxDate,
                         props.disabledDates)

\* C28 (as stated): isDateDisabled(date, minDate, maxDate, disabledDates) is
\* true iff date is strictly before a given minDate, or strictly after a
\* given maxDate, or equal to some entry of disabledDates; it is false for
\* minDate and maxDate themselves and when no constraint is given, and the
\* controller's isDisabled predicate is this function applied to its
\* configured constraints.
C28_Disabled ==
  [][ /\ DisabledIffExcluded
      /\ (CallOf("isDateDisabled") /\ Arg.date \in {Arg.minDate, Arg.maxDate}) =>
           Result = FALSE
      /\ (CallOf("isDateDisabled") /\ Arg.minDate = Undefined
             /\ Arg.maxDate = Undefined
             /\ Arg.disabledDates \in {Undefined, List(<< >>)}) =>
           Result = FALSE ]_vars

\* C28 (amended): the same, with minDate false unless it is after maxDate
\* or listed in disabledDates, and maxDate false unless it is before minDate
\* or listed.
C28_DisabledUnlessOtherwiseExcluded ==
  [][ /\ DisabledIffExcluded
      /\ (CallOf("isDateDisabled") /\ Arg.date = Arg.minDate) =>
           Result = Excluded(Arg.date, Undefined, Arg.maxDate, Arg.disabledDates)
      /\ (CallOf("isDateDisabled") /\ Arg.date = Arg.maxDate) =>
           Result = Excluded(Arg.date, Arg.minDate, Undefined, Arg.disabledDates)
      /\ (CallOf("isDateDisabled") /\ Arg.minDate = Undefined
             /\ Arg.maxDate = Undefined
             /\ Arg.disabledDates \in {Undefined, List(<< >>)}) =>
           Result = FALSE ]_vars

\* minDate itself, with a later maxDate and a list that does not name it,
\* is enabled
C28_Witness ==
  /\ lastEvent.op = "isDateDisabled"
  /\ lastEvent.date = createDate(2024, 2, 10)
  /\ lastEvent.minDate = createDate(2024, 2, 10)
  /\ lastEvent.maxDate = createDate(2024, 3, 5)
  /\ lastEvent.disabledDates # Undefined
  /\ Len(lastEvent.disabledDates.items) = 2
  /\ lastEvent.result = FALSE

\* -------------------------------------------------------------------- C29
\* C29: isInSelectedRange(d) is true iff both endpoints are present and
\* start < d < end (endpoints excluded); for a complete range with
\* start <= end, every date d satisfies isWithinRange(d, range) iff
\* isRangeStart(d) or isInSelectedRange(d) or isRangeEnd(d), and
\* isInSelectedRange(d) is never true together with isRangeStart(d) or
\* isRangeEnd(d).
C29_RangePartition ==
  \A d \in Dates :
    /\ isInSelectedRange(d) =
         /\ IsComplete(selectedRange)
         /\ Before(selectedRange.start, d)
         /\ Before(d, selectedRange.end)
    /\ (IsComplete(selectedRange)
          /\ ~Before(selectedRange.end, selectedRange.start)) =>
         isWithinRange(d, selectedRange) =
           (isRangeStart(d) \/ isInSelectedRange(d) \/ isRangeEnd(d))
    /\ ~(isInSelectedRange(d) /\ (isRangeStart(d) \/ isRangeEnd(d)))

\* a range selected from January 31 to February 2: February 1 is inside,
\* the endpoints are the start and the end, the days around are outside
C29_Witness ==
  /\ lastEvent.op = "selectDate"
  /\ selectedRange = Range(D(2), D(4))
  /\ isRangeStart(D(2)) /\ ~isInSelectedRange(D(2))
  /\ isInSelectedRange(D(3))
  /\ isRangeEnd(D(4)) /\ ~isInSelectedRange(D(4))
  /\ ~isWithinRange(D(1), selectedRange)
  /\ ~isWithinRange(D(5), selectedRange)

\* -------------------------------------------------------------------- C30
\* C30: the previous-month button is disabled iff minDate is set and
\* currentMonth's month is at or before minDate's month, and the next-month
\* button is disabled iff maxDate is set and currentMonth's month is at or
\* after maxDate's month; with no minDate / maxDate the corresponding button
\* is always enabled.
C30_HeaderBounds ==
  /\ (~canGoToPrevious) =
       /\ props.minDate # Undefined
       /\ MonthNumber(currentMonth) <= MonthNumber(props.minDate)
  /\ (~canGoToNext) =
       /\ props.maxDate # Undefined
       /\ MonthNumber(currentMonth) >= MonthNumber(props.maxDate)
  /\ props.minDate = Undefined => canGoToPrevious
  /\ props.maxDate = Undefined => canGoToNext

\* paged back from March to February 2024, the month of minDate 2024-02-10:
\* the previous-month button is disabled, the next-month button is not
C30_Witness ==
  /\ lastEvent.op = "goToPreviousMonth"
  /\ props.minDate = createDate(2024, 2, 10)
  /\ props.maxDate = createDate(2024, 3, 5)
  /\ currentMonth = createDate(2024, 2, 1)
  /\ ~canGoToPrevious
  /\ canGoToNext

\* -------------------------------------------------------------------- C31
\* C31: in the two-month DateRangePicker, after any sequence of previous /
\* next clicks the right month is exactly the month following the left
\* month (December is followed by January of the next year), and each click
\* moves both months by exactly one month.
C31_TwoMonthsAdjacent ==
  [][ /\ leftMonth' # Null =>
           /\ MonthNumber(rightMonth') = MonthNumber(leftMonth') + 1
           /\ rightMonth'.month \in 1..12
           /\ leftMonth'.month = 12 =>
                rightMonth' = createDate(leftMonth'.year + 1, 1, 1)
      /\ StepOf("DateRangePicker.goToPreviousMonth") =>
           /\ MonthNumber(leftMonth') = MonthNumber(leftMonth) - 1
           /\ MonthNumber(rightMonth') = MonthNumber(rightMonth) - 1
      /\ StepOf("DateRangePicker.goToNextMonth") =>
           /\ MonthNumber(leftMonth') = MonthNumber(leftMonth) + 1
           /\ MonthNumber(rightMonth') = MonthNumber(rightMonth) + 1 ]_vars

\* mounted on 2025-12-31, paged back and forth again: December 2025 on the
\* left, January 2026 on the right
C31_Witness ==
  /\ lastEvent.op = "DateRangePicker.goToNextMonth"
  /\ lastEvent.n = 2
  /\ leftMonth = createDate(2025, 12, 1)
  /\ rightMonth = createDate(2026, 1, 1)

\* -------------------------------------------------------------------- C33
\* The short English names of the weekdays 0 (Sunday) .. 6 (Saturday)
NameOfWeekday(weekday) ==
  CASE weekday = 0 -> "Sun" [] weekday = 1 -> "Mon" [] weekday = 2 -> "Tue"
    [] weekday = 3 -> "Wed" [] weekday = 4 -> "Thu" [] weekday = 5 -> "Fri"
    [] weekday = 6 -> "Sat"

\* C33: getWeekdayNames returns 7 names; without an override, entry i names
\* weekday (weekStartsOn + i) mod 7 (entry 0 is Sunday for weekStartsOn 0,
\* Monday for 1); with dayNamesShort supplied it returns that list verbatim,
\* unrotated, whatever weekStartsOn is.
C33_WeekdayNames ==
  [][ CallOf("getWeekdayNames") =>
        \E weekStartsOn \in { IF "weekStartsOn" \in DOMAIN Arg.locale
                               THEN Arg.locale.weekStartsOn ELSE 0 } :
          /\ Len(Result.items) = 7
          /\ IF "dayNamesShort" \in DOMAIN Arg.locale
             THEN Result = Arg.locale.dayNamesShort
             ELSE /\ \A i \in 0..6 :
                       Result.items[i + 1] = NameOfWeekday((weekStartsOn + i) % 7)
                  /\ weekStartsOn = 0 => Result.items[1] = "Sun"
                  /\ weekStartsOn = 1 => Result.items[1] = "Mon" ]_vars

\* weekStartsOn 1: the names run from Monday to Sunday
C33_Witness ==
  /\ lastEvent.op = "getWeekdayNames"
  /\ lastEvent.locale = [weekStartsOn |-> 1]
  /\ lastEvent.result
       = List(<< "Mon", "Tue", "Wed", "Thu", "Fri", "Sat", "Sun" >>)

\* the override comes back as it is with weekStartsOn 3
WeekdayNamesOverride ==
  /\ lastEvent.op = "getWeekdayNames"
  /\ lastEvent.locale = [weekStartsOn |-> 3, dayNamesShort |-> CustomNames]
  /\ lastEvent.result = CustomNames

\* -------------------------------------------------------------------- C34
\* C34: useCalendarContext called outside a provider throws
\* 'useCalendarContext must be used within a CalendarProvider' and returns
\* nothing; called inside a provider it returns the controller's state.
C34_UseCalendarContext ==
  [][ CallOf("useCalendarContext") =>
        IF Arg.inside
        THEN /\ ~Result.threw
             /\ Result.value.currentMonth = currentMonth'
             /\ Result.value.focusedDate = focusedDate'
             /\ Result.value.selectedDate =
                  IF props.value # Undefined THEN props.value
                  ELSE internalSelectedDate'
             /\ Result.value.selectedRange =
                  IF props.rangeValue # Undefined THEN props.rangeValue
                  ELSE internalRange'
        ELSE /\ Result.threw
             /\ Result.message
                  = "useCalendarContext must be used within a CalendarProvider"
             /\ "value" \notin DOMAIN Result ]_vars

\* a component outside every provider has called the hook
C34_Witness ==
  /\ lastEvent.op = "useCalendarContext"
  /\ ~lastEvent.inside
  /\ lastEvent.result.threw

\* after a click has selected a start, the hook returns the range in progress
UseCalendarContextAfterSelection ==
  /\ lastEvent.op = "useCalendarContext"
  /\ lastEvent.inside
  /\ lastEvent.n = 2
  /\ lastEvent.result.value.selectedRange.start # Null

\* -------------------------------------------------------------------- C35
\* The month grids on screen
RenderedGrids ==
  IF leftMonth = Null THEN << MonthGrid >>
  ELSE << MonthGridForMonth(leftMonth), MonthGridForMonth(rightMonth) >>

\* The header of each column names the weekday of every date below it
HeadersNameColumns(grid) ==
  \A i \in 1..Len(grid.days) :
    grid.weekdayNames.items[((i - 1) % 7) + 1]
      = NameOfWeekday(Weekday(grid.days[i]))

\* C35: in every rendered month grid, of the single-month view and of the
\* two-month view, whatever the weekStartsOn prop and locale.weekStartsOn
\* are, the header of column c names the weekday of every date in column c.
C35_HeaderColumns ==
  \A grids \in {RenderedGrids} :
    \A g \in DOMAIN grids : HeadersNameColumns(grids[g])

\* the single-month view keeps its headers over its columns
HeaderColumnsSingleMonth ==
  leftMonth = Null => \A grid \in {MonthGrid} : HeadersNameColumns(grid)

\* the two-month view does when the weekStartsOn prop is the weekStartsOn
\* of the locale prop, or 0 without one
HeaderColumnsWhenStartsAgree ==
  (/\ leftMonth # Null
   /\ props.weekStartsOn = (IF has(props.locale, "weekStartsOn")
                            THEN props.locale.weekStartsOn ELSE 0))
    => \A grids \in {RenderedGrids} :
         \A g \in DOMAIN grids : HeadersNameColumns(grids[g])

\* -------------------------------------------------------------------- C36
\* The step changes nothing of the selection and notifies nobody
SelectionUntouched ==
  /\ selectedDate' = selectedDate
  /\ selectedRange' = selectedRange
  /\ onChangeCalls' = onChangeCalls
  /\ onRangeChangeCalls' = onRangeChangeCalls

SetCurrentMonthAfterSelection ==
  /\ lastEvent.op = "setCurrentMonth"
  /\ currentMonth = lastEvent.date
  /\ selectedDate # Null
  /\ ~SameMonth(selectedDate, currentMonth)

\* -------------------------------------------------------------------- C37
\* no range value is passed: the provider keeps the range itself
UncontrolledRangeMode == RangeInputSupplied /\ props.rangeValue = Undefined

\* where a range is in its life
RangePhase(r) ==
  IF r.start = Null
  THEN (IF r.end = Null THEN "empty" ELSE "end only")
  ELSE (IF r.end = Null THEN "in progress" ELSE "complete")

PhaseAfter(phase) ==
  CASE phase = "empty" -> "in progress"
    [] phase = "in progress" -> "complete"
    [] phase = "complete" -> "in progress"
    [] OTHER -> "none"

\* C37: in uncontrolled range mode the range only moves empty -> in progress
\* -> complete -> in progress -> ...: a selectDate call that is not rejected
\* moves it one phase on, a range with an end and no start never appears,
\* and no selectDate call brings the range back to the empty range.
C37_RangeLifeCycle ==
  [][ (UncontrolledRangeMode /\ SelectStep) =>
        /\ \/ DisabledByConstraints(Clicked) /\ selectedRange' = selectedRange
           \/ RangePhase(selectedRange') = PhaseAfter(RangePhase(selectedRange))
        /\ RangePhase(selectedRange') # "end only"
        /\ RangePhase(selectedRange') = "empty" =>
             RangePhase(selectedRange) = "empty" ]_vars

\* mounted with the empty range, the picker holds a complete range after two
\* accepted calls
C37_Witness ==
  /\ UncontrolledRangeMode
  /\ props.defaultRangeValue = Undefined
  /\ onRangeChangeCalls.count = 2
  /\ lastEvent.op = "selectDate"
  /\ RangePhase(selectedRange) = "complete"
  /\ selectedRange.end = lastEvent.date

\* a call on a complete range has started the next range
RangeRestarted ==
  /\ UncontrolledRangeMode
  /\ props.defaultRangeValue # Undefined
  /\ IsComplete(props.defaultRangeValue)
  /\ onRangeChangeCalls.count = 1
  /\ lastEvent.op = "selectDate"
  /\ selectedRange = Range(lastEvent.date, Null)

\* -------------------------------------------------------------------- C38
\* absent, or a date the constraints leave enabled
AbsentOrEnabled(d) == d = Undefined \/ d = Null \/ ~DisabledByConstraints(d)

RangeAbsentOrEnabled(r) ==
  r = Undefined \/ (AbsentOrEnabled(r.start) /\ AbsentOrEnabled(r.end))

\* neither value nor rangeValue is passed, and the defaults are enabled
UncontrolledFromEnabledDefaults ==
  /\ props.value = Undefined
  /\ props.rangeValue = Undefined
  /\ AbsentOrEnabled(props.defaultValue)
  /\ RangeAbsentOrEnabled(props.defaultRangeValue)

\* C38: in an uncontrolled controller whose default selection is absent or
\* enabled, selectedDate and both ends of selectedRange are null or enabled
\* after any sequence of selectDate calls, and so is every value passed to
\* onChange or onRangeChange.
C38_NoDisabledSelection ==
  UncontrolledFromEnabledDefaults =>
    /\ AbsentOrEnabled(selectedDate)
    /\ RangeAbsentOrEnabled(selectedRange)
    /\ AbsentOrEnabled(onChangeCalls.last)
    /\ RangeAbsentOrEnabled(onRangeChangeCalls.last)

\* under constraints, a disabled date was clicked after a range had been
\* completed and reported
C38_Witness ==
  /\ UncontrolledFromEnabledDefaults
  /\ props.minDate # Undefined
  /\ lastEvent.op = "selectDate"
  /\ DisabledByConstraints(lastEvent.date)
  /\ onRangeChangeCalls.count = 2
  /\ IsComplete(onRangeChangeCalls.last)
  /\ selectedRange = onRangeChangeCalls.last

\* the same in single mode: the listed date was clicked after a selection
DisabledClickAfterSingleSelection ==
  /\ UncontrolledFromEnabledDefaults
  /\ ~RangeInputSupplied
  /\ lastEvent.op = "selectDate"
  /\ DisabledByConstraints(lastEvent.date)
  /\ onChangeCalls.count = 1
  /\ selectedDate = onChangeCalls.last
  /\ selectedDate # Null

\* -------------------------------------------------------------------- C39
\* C39: in a picker with CalendarHeader, minDate <= maxDate and an initial
\* month within the months of minDate .. maxDate, currentMonth stays within
\* those months after any sequence of clicks on enabled header buttons and
\* of keyboard focus moves.
C39_MonthWithinBounds ==
  (/\ props.minDate # Undefined
   /\ props.maxDate # Undefined
   /\ ~Before(props.maxDate, props.minDate))
    => /\ MonthNumber(props.minDate) <= MonthNumber(currentMonth)
       /\ MonthNumber(currentMonth) <= MonthNumber(props.maxDate)

\* the next-month button has brought the picker to the month of maxDate,
\* where it is disabled
C39_Witness ==
  /\ lastEvent.op = "goToNextMonth"
  /\ lastEvent.n = 2
  /\ SameMonth(currentMonth, props.maxDate)
  /\ ~SameMonth(currentMonth, props.minDate)
  /\ ~canGoToNext

\* a key has moved the month: PageUp in the month of maxDate
MonthMovedByKey ==
  /\ lastEvent.op = "keyDown"
  /\ lastEvent.key = "PageUp"
  /\ SameMonth(lastEvent.date, props.maxDate)
  /\ MonthNumber(currentMonth) = MonthNumber(props.maxDate) - 1

\* -------------------------------------------------------------------- C40
\* C40: after an arrow, Home, End, PageUp or PageDown event the new
\* focusedDate is not disabled, whatever minDate, maxDate and disabledDates
\* are.
C40_FocusEnabled ==
  [][ (KeyStep /\ Key \in MoveKeys) =>
        ~DisabledByConstraints(focusedDate') ]_vars

\* with minDate <= maxDate, a focus move leaves focus on a disabled date
\* only if the date is listed in disabledDates
FocusDisabledOnlyByList ==
  [][ (/\ KeyStep
       /\ Key \in MoveKeys
       /\ props.minDate # Undefined /\ props.maxDate # Undefined
            => ~Before(props.maxDate, props.minDate)
       /\ DisabledByConstraints(focusedDate')) =>
        \E i \in 1..Len(props.disabledDates.items) :
          props.disabledDates.items[i] = focusedDate' ]_vars

\* -------------------------------------------------------------------- C32
\* The range the Day cells of a grid are classified against
RangeOfGrid(grid) ==
  IF grid = "right" /\ rightProvider # Null
  THEN (IF props.rangeValue # Undefined THEN props.rangeValue
        ELSE rightProvider.internalRange)
  ELSE selectedRange

\* Both grids show one range, and an accepted click in either grid reports
\* the range computed from it and the clicked date
SharedSelection ==
  /\ RangeOfGrid("left")' = RangeOfGrid("right")'
  /\ (StepOf("click") /\ ~DisabledByConstraints(Clicked)) =>
       onRangeChangeCalls'.last = ComputedRange(RangeOfGrid("left"), Clicked)

\* C32: in the two-month DateRangePicker both grids read and write one
\* selection, in controlled and in uncontrolled mode: a start selected in
\* the left grid and an end selected in the right grid give the one range
\* {start, end}, and both grids classify every date against that range.
C32_SharedSelection == [][SharedSelection]_vars

\* it holds with one provider around both grids
SharedSelectionOneProvider == [][rightProvider = Null => SharedSelection]_vars

\* and with a provider around each grid when the host passes value
SharedSelectionControlled ==
  [][props.rangeValue # Undefined => SharedSelection]_vars

\* one provider, no value passed: the start was clicked in the left grid,
\* the end in the right grid, and the range of both is reported
RangeAcrossGrids ==
  /\ rightProvider = Null
  /\ props.rangeValue = Undefined
  /\ props.defaultRangeValue = Undefined
  /\ lastEvent.op = "click"
  /\ lastEvent.grid = "right"
  /\ onRangeChangeCalls.count = 2
  /\ selectedRange = onRangeChangeCalls.last
  /\ SameMonth(selectedRange.start, leftMonth)
  /\ selectedRange.end = lastEvent.date
  /\ SameMonth(selectedRange.end, rightMonth)

\* two providers, no value passed: after the same two clicks each grid
\* holds a range in progress of its own
RangesApart ==
  /\ rightProvider # Null
  /\ props.rangeValue = Undefined
  /\ props.defaultRangeValue = Undefined
  /\ lastEvent.op = "click"
  /\ lastEvent.grid = "right"
  /\ onRangeChangeCalls.count = 2
  /\ internalRange.start # Null
  /\ SameMonth(internalRange.start, leftMonth)
  /\ rightProvider.internalRange = Range(lastEvent.date, Null)
  /\ onRangeChangeCalls.last = Range(lastEvent.date, Null)

\* two providers and a host that passes on what onChange gave it: the range
\* of both clicks is reported
RangeAcrossGridsControlled ==
  /\ rightProvider # Null
  /\ props.rangeValue # Undefined
  /\ lastEvent.op = "click"
  /\ lastEvent.grid = "right"
  /\ onRangeChangeCalls.count = 2
  /\ IsComplete(onRangeChangeCalls.last)
  /\ props.rangeValue.end = Null
  /\ onRangeChangeCalls.last.start = props.rangeValue.start
  /\ SameMonth(onRangeChangeCalls.last.start, leftMonth)
  /\ onRangeChangeCalls.last.end = lastEvent.date

=============================================================================
